---------------------------- MODULE Spec2Model ----------------------------
(***************************************************************************)
(* Model of the contact-form validation pipeline of the portfolio site    *)
(* (src/assets/js/main.js): SecurityHelper (CSRF token, sanitizer,        *)
(* injection detectors, honeypot, rate limiter) and FormHandler's         *)
(* submission handler.                                                     *)
(*                                                                         *)
(* A JavaScript string is a sequence of one-character strings; characters  *)
(* that TLA+ cannot write are named tokens ("NUL", "VT", "DEL", ...; "BQ"  *)
(* is the backquote).                                                      *)
(* A JavaScript value is a record [type, val].                             *)
(***************************************************************************)
EXTENDS Integers, Sequences, FiniteSets, TLC

\* ------------------------------------------------------------------------
\* JavaScript strings and the RegExp character classes
\* ------------------------------------------------------------------------

\* A string literal as a sequence of characters.
Str(s) == [i \in 1..Len(s) |-> SubSeq(s, i, i)]

\* A JavaScript string value and two values that are not strings.
JsString(s) == [type |-> "string", val |-> s]

JsNumber == [type |-> "number", val |-> <<>>]

JsUndefined == [type |-> "undefined", val |-> <<>>]

\* The null of a verdict's threat / error field.
null == "null"

LowerSeq == Str("abcdefghijklmnopqrstuvwxyz")

UpperSeq == Str("ABCDEFGHIJKLMNOPQRSTUVWXYZ")

LowerLetters == {LowerSeq[i] : i \in 1..26}

UpperLetters == {UpperSeq[i] : i \in 1..26}

Digits == {"0", "1", "2", "3", "4", "5", "6", "7", "8", "9"}

\* \w
WordChars == LowerLetters \cup UpperLetters \cup Digits \cup {"_"}

\* \s (and what String.prototype.trim removes)
WhiteSpace == {" ", "\t", "\n", "\r", "\f", "VT", "NBSP"}

\* what . does not match
LineTerminators == {"\n", "\r"}

\* [\x00-\x08\x0B\x0C\x0E-\x1F\x7F]
ControlChars == {"NUL", "BEL", "BS", "VT", "\f", "ESC", "DEL"}

\* String.prototype.toLowerCase, one character
LowerChar(c) ==
  IF c \in UpperLetters THEN LowerSeq[CHOOSE i \in 1..26 : UpperSeq[i] = c] ELSE c

ToLowerCase(s) == [i \in 1..Len(s) |-> LowerChar(s[i])]

\* The character at 1-based position i, "" outside the string.
At(s, i) == IF i \in 1..Len(s) THEN s[i] ELSE ""

\* The literal lit occurs in s at position i.
MatchAt(s, i, lit) ==
  /\ i >= 1
  /\ i + Len(lit) - 1 <= Len(s)
  /\ \A k \in 1..Len(lit) : s[i + k - 1] = lit[k]

\* The same under the i flag (lit is written in lower case).
MatchAtCI(s, i, lit) ==
  /\ i >= 1
  /\ i + Len(lit) - 1 <= Len(s)
  /\ \A k \in 1..Len(lit) : LowerChar(s[i + k - 1]) = lit[k]

\* String.prototype.includes / an unanchored literal pattern
Includes(s, lit) == \E i \in 1..Len(s) : MatchAt(s, i, lit)

IncludesCI(s, lit) == \E i \in 1..Len(s) : MatchAtCI(s, i, lit)

\* \b between positions p and p+1
IsWordBoundary(s, p) == (At(s, p) \in WordChars) # (At(s, p + 1) \in WordChars)

\* \bword\b at position i, under the i flag
WordAtCI(s, i, w) ==
  /\ MatchAtCI(s, i, w)
  /\ IsWordBoundary(s, i - 1)
  /\ IsWordBoundary(s, i + Len(w) - 1)

\* The first position >= i whose character is not in set (a greedy class*).
SkipWhile(s, i, set) ==
  IF \E j \in i..Len(s) : s[j] \notin set
  THEN CHOOSE j \in i..Len(s) : s[j] \notin set /\ \A k \in i..(j - 1) : s[k] \in set
  ELSE IF i > Len(s) THEN i ELSE Len(s) + 1

\* \s*
SkipWS(s, i) == SkipWhile(s, i, WhiteSpace)

\* No character of set at positions a..b of s.
NoneBetween(s, a, b, set) == \A k \in a..b : s[k] \notin set

\* open [^>]* tail : a tag opener followed, before any ">", by tail.
TagThen(s, open, tail) ==
  \E i \in 1..Len(s) :
    /\ MatchAtCI(s, i, open)
    /\ \E j \in (i + Len(open))..Len(s) :
         /\ MatchAtCI(s, j, tail)
         /\ NoneBetween(s, i + Len(open), j - 1, {">"})

\* ------------------------------------------------------------------------
\* SecurityHelper: sanitizer and injection detectors
\* ------------------------------------------------------------------------

\* input.replace(/<[^>]*>/g, ''): each leftmost "<" up to the next ">" is cut.
RECURSIVE StripTags(_)
StripTags(s) ==
  IF \E i \in 1..Len(s) : s[i] = "<" /\ \E j \in (i + 1)..Len(s) : s[j] = ">"
  THEN LET i == CHOOSE a \in 1..Len(s) :
                  /\ s[a] = "<"
                  /\ \E j \in (a + 1)..Len(s) : s[j] = ">"
                  /\ \A b \in 1..(a - 1) : s[b] # "<"
           j == CHOOSE c \in (i + 1)..Len(s) :
                  s[c] = ">" /\ \A d \in (i + 1)..(c - 1) : s[d] # ">"
       IN  SubSeq(s, 1, i - 1) \o StripTags(SubSeq(s, j + 1, Len(s)))
  ELSE s

\* sanitized.replace(/[\x00-\x08\x0B\x0C\x0E-\x1F\x7F]/g, '')
StripControl(s) == SelectSeq(s, LAMBDA c : c \notin ControlChars)

\* String.prototype.trim
Trim(s) ==
  IF \A i \in 1..Len(s) : s[i] \in WhiteSpace
  THEN <<>>
  ELSE LET a == CHOOSE i \in 1..Len(s) :
                  s[i] \notin WhiteSpace /\ \A k \in 1..(i - 1) : s[k] \in WhiteSpace
           b == CHOOSE i \in 1..Len(s) :
                  s[i] \notin WhiteSpace /\ \A k \in (i + 1)..Len(s) : s[k] \in WhiteSpace
       IN  SubSeq(s, a, b)

\* Mutant of sanitizeInput: the function as README.md prints it, without
\* the removal of control characters.
sanitizeInputTagsOnly(input) ==
  IF input.type # "string" THEN <<>>
  ELSE Trim(StripTags(input.val))

\* SecurityHelper.sanitizeInput: a JavaScript value in, a string out.
sanitizeInput(input) ==
  IF input.type # "string" THEN <<>>
  ELSE Trim(StripControl(StripTags(input.val)))

\* The keyword alternation of the first SQL pattern.
SqlKeywords ==
  {Str("union"), Str("select"), Str("insert"), Str("update"), Str("delete"),
   Str("drop"), Str("create"), Str("alter"), Str("exec"), Str("execute"),
   Str("script"), Str("javascript"), Str("onerror"), Str("onload")}

\* /(\b)(UNION|SELECT|...|ONLOAD)(\b)/gi
SqlKeywordPattern(s) ==
  \E i \in 1..Len(s) : \E w \in SqlKeywords : WordAtCI(s, i, w)

\* /(--|#|\/\*|\*\/|;)/g
SqlCommentPattern(s) ==
  \/ Includes(s, Str("--"))
  \/ Includes(s, Str("#"))
  \/ Includes(s, Str("/*"))
  \/ Includes(s, Str("*/"))
  \/ Includes(s, Str(";"))

\* '.*' or ".*" starting at position j: the quote q, later the same quote,
\* no line terminator between them.
QuotedAt(s, j, q) ==
  /\ At(s, j) = q
  /\ \E m \in (j + 1)..Len(s) :
       s[m] = q /\ NoneBetween(s, j + 1, m - 1, LineTerminators)

\* /(\bOR\b|\bAND\b)(\s*)(1\s*=\s*1|'.*'|".*")/gi
SqlLogicPattern(s) ==
  \E i \in 1..Len(s) : \E w \in {Str("or"), Str("and")} :
    /\ WordAtCI(s, i, w)
    /\ LET j == SkipWS(s, i + Len(w))
       IN  \/ /\ At(s, j) = "1"
              /\ At(s, SkipWS(s, j + 1)) = "="
              /\ At(s, SkipWS(s, SkipWS(s, j + 1) + 1)) = "1"
           \/ QuotedAt(s, j, "'")
           \/ QuotedAt(s, j, "\"")

\* c \s* = \s* c with c a digit (the tail of \d+ and the head of \d+) or a quote
EqualsBetween(s, i, set) ==
  /\ At(s, i) \in set
  /\ At(s, SkipWS(s, i + 1)) = "="
  /\ At(s, SkipWS(s, SkipWS(s, i + 1) + 1)) \in set

\* /(\d+\s*=\s*\d+|'\s*=\s*'|"\s*=\s*")/g
SqlTautologyPattern(s) ==
  \E i \in 1..Len(s) :
    \/ EqualsBetween(s, i, Digits)
    \/ EqualsBetween(s, i, {"'"})
    \/ EqualsBetween(s, i, {"\""})

\* /\\['"`]/g   (the backquote is the character "BQ")
SqlEscapedQuotePattern(s) ==
  \E i \in 1..Len(s) : s[i] = "\\" /\ At(s, i + 1) \in {"'", "\"", "BQ"}

\* /;\s*\w+/g
SqlStackedPattern(s) ==
  \E i \in 1..Len(s) : s[i] = ";" /\ At(s, SkipWS(s, i + 1)) \in WordChars

HexDigits == Digits \cup {"a", "b", "c", "d", "e", "f"}

\* /0x[0-9a-f]+/gi
SqlHexPattern(s) ==
  \E i \in 1..Len(s) :
    /\ s[i] = "0"
    /\ LowerChar(At(s, i + 1)) = "x"
    /\ LowerChar(At(s, i + 2)) \in HexDigits

\* /(\bexec\b|\bexecute\b|\bscript\b)/gi
SqlExecPattern(s) ==
  \E i \in 1..Len(s) : \E w \in {Str("exec"), Str("execute"), Str("script")} :
    WordAtCI(s, i, w)

\* [*()\\&|]
LdapChars == {"*", "(", ")", "\\", "&", "|"}

\* /[\*\(\)\\\&\|]/g, the last entry of sqlPatterns
SqlLdapCharPattern(s) == \E i \in 1..Len(s) : s[i] \in LdapChars

\* SecurityHelper.detectSQLInjection: any pattern of the list matches.
detectSQLInjectionNoLdapChars(input) ==
  IF input.type # "string" THEN FALSE
  ELSE LET s == input.val
       IN  \/ SqlKeywordPattern(s)
           \/ SqlCommentPattern(s)
           \/ SqlLogicPattern(s)
           \/ SqlTautologyPattern(s)
           \/ SqlEscapedQuotePattern(s)
           \/ SqlStackedPattern(s)
           \/ SqlHexPattern(s)
           \/ SqlExecPattern(s)

detectSQLInjection(input) ==
  IF input.type # "string" THEN FALSE
  ELSE LET s == input.val
       IN  \/ SqlKeywordPattern(s)
           \/ SqlCommentPattern(s)
           \/ SqlLogicPattern(s)
           \/ SqlTautologyPattern(s)
           \/ SqlEscapedQuotePattern(s)
           \/ SqlStackedPattern(s)
           \/ SqlHexPattern(s)
           \/ SqlExecPattern(s)
           \/ SqlLdapCharPattern(s)

\* /on\w+\s*=\s*["'][^"']*["']/gi
XssEventHandlerPattern(s) ==
  \E i \in 1..Len(s) :
    /\ MatchAtCI(s, i, Str("on"))
    /\ At(s, i + 2) \in WordChars
    /\ LET e == SkipWhile(s, i + 2, WordChars)
           q == SkipWS(s, SkipWS(s, e) + 1)
       IN  /\ At(s, SkipWS(s, e)) = "="
           /\ At(s, q) \in {"\"", "'"}
           /\ \E m \in (q + 1)..Len(s) : s[m] \in {"\"", "'"}

\* /<a[^>]*href\s*=\s*"javascript:/gi
XssAnchorPattern(s) ==
  \E i \in 1..Len(s) :
    /\ MatchAtCI(s, i, Str("<a"))
    /\ \E j \in (i + 2)..Len(s) :
         /\ MatchAtCI(s, j, Str("href"))
         /\ NoneBetween(s, i + 2, j - 1, {">"})
         /\ At(s, SkipWS(s, j + 4)) = "="
         /\ MatchAtCI(s, SkipWS(s, SkipWS(s, j + 4) + 1), Str("\"javascript:"))

\* SecurityHelper.detectXSSInjection: any pattern of the list matches.
detectXSSInjection(input) ==
  IF input.type # "string" THEN FALSE
  ELSE LET s == input.val
       IN  \* /<script[^>]*>[\s\S]*?<\/script>/gi
           \/ \E i \in 1..Len(s) :
                /\ MatchAtCI(s, i, Str("<script"))
                /\ \E j \in (i + 7)..Len(s) :
                     /\ s[j] = ">"
                     /\ NoneBetween(s, i + 7, j - 1, {">"})
                     /\ \E k \in (j + 1)..Len(s) : MatchAtCI(s, k, Str("</script>"))
           \/ XssEventHandlerPattern(s)
           \* /javascript:/gi
           \/ IncludesCI(s, Str("javascript:"))
           \* /data:text\/html/gi
           \/ IncludesCI(s, Str("data:text/html"))
           \* /<svg[^>]*onload/gi
           \/ TagThen(s, Str("<svg"), Str("onload"))
           \* /<iframe[^>]*>/gi
           \/ TagThen(s, Str("<iframe"), Str(">"))
           \* /<(object|embed)[^>]*>/gi
           \/ TagThen(s, Str("<object"), Str(">"))
           \/ TagThen(s, Str("<embed"), Str(">"))
           \* /<meta[^>]*refresh/gi
           \/ TagThen(s, Str("<meta"), Str("refresh"))
           \* /<form[^>]*>/gi
           \/ TagThen(s, Str("<form"), Str(">"))
           \/ XssAnchorPattern(s)

\* The alternation of the first NoSQL pattern.
MongoOperators ==
  {Str("$where"), Str("$ne"), Str("$gt"), Str("$lt"), Str("$exists"),
   Str("$regex"), Str("$or")}

\* /{"[^"]*":\s*{"\$[a-z]+"/gi
NoSqlJsonPattern(s) ==
  \E i \in 1..Len(s) :
    /\ MatchAt(s, i, Str("{\""))
    /\ LET j == SkipWhile(s, i + 2, {s[k] : k \in 1..Len(s)} \ {"\""})
           k == SkipWS(s, j + 2)
       IN  /\ At(s, j) = "\""
           /\ At(s, j + 1) = ":"
           /\ MatchAt(s, k, Str("{\"$"))
           /\ LowerChar(At(s, k + 3)) \in LowerLetters
           /\ At(s, SkipWhile(s, k + 3, LowerLetters \cup UpperLetters)) = "\""

\* SecurityHelper.detectNoSQLInjection: any pattern of the list matches.
detectNoSQLInjection(input) ==
  IF input.type # "string" THEN FALSE
  ELSE LET s == input.val
       IN  \* /(\$where|\$ne|\$gt|\$lt|\$exists|\$regex|\$or)/gi
           \/ \E w \in MongoOperators : IncludesCI(s, w)
           \/ NoSqlJsonPattern(s)
           \* /::+/g
           \/ Includes(s, Str("::"))

\* SecurityHelper.detectLDAPInjection: matchCount counts the PATTERNS of
\* ldapPatterns that match, /[*()\\&|]/g and /\*/g, not the characters.
detectLDAPInjection(input) ==
  IF input.type # "string" THEN FALSE
  ELSE LET s == input.val
           matchCount ==
             (IF \E i \in 1..Len(s) : s[i] \in LdapChars THEN 1 ELSE 0)
             + (IF \E i \in 1..Len(s) : s[i] = "*" THEN 1 ELSE 0)
       IN  matchCount > 1

\* How far position i lies into its run of equal characters (0 at its start).
RunOffset(s, i) ==
  i - (CHOOSE j \in 1..i :
         /\ \A k \in j..i : s[k] = s[i]
         /\ (j = 1 \/ s[j - 1] # s[i]))

\* input.match(/(\|\||&&|;|&|\||`)/g).length: the scan is leftmost and the
\* alternation tries || and && first, so a run of | or of & is cut into pairs
\* and a last single; the positions counted are those where a match starts.
CountSeparators(s) ==
  Cardinality({i \in 1..Len(s) :
    \/ s[i] \in {";", "BQ"}
    \/ s[i] \in {"|", "&"} /\ RunOffset(s, i) % 2 = 0})

\* input.match(/X\([^)]*\)/g).length, X one character: a match runs from
\* "X(" to the next ")", and an opener inside a match closes at the same ")",
\* so the matches are as many as the distinct closing positions.
CountSubstitutions(s, x) ==
  Cardinality({SkipWhile(s, i + 2, {s[k] : k \in 1..Len(s)} \ {")"}) :
    i \in {a \in 1..Len(s) :
             /\ s[a] = x
             /\ At(s, a + 1) = "("
             /\ \E j \in (a + 2)..Len(s) : s[j] = ")"}})

\* SecurityHelper.detectCommandInjection: matchCount counts the patterns that
\* have more than one match in the input.
detectCommandInjection(input) ==
  IF input.type # "string" THEN FALSE
  ELSE LET s == input.val
           \* /[;&|`$()]/g
           metaChars == Cardinality({i \in 1..Len(s) : s[i] \in {";", "&", "|", "BQ", "$", "(", ")"}})
           \* /`[^`]*`/g : consecutive backquotes pair up
           backticks == Cardinality({i \in 1..Len(s) : s[i] = "BQ"}) \div 2
           matchCount ==
             (IF metaChars > 1 THEN 1 ELSE 0)
             + (IF CountSeparators(s) > 1 THEN 1 ELSE 0)
             + (IF backticks > 1 THEN 1 ELSE 0)
             \* /\$\([^)]*\)/g
             + (IF CountSubstitutions(s, "$") > 1 THEN 1 ELSE 0)
             \* /<\([^)]*\)/g
             + (IF CountSubstitutions(s, "<") > 1 THEN 1 ELSE 0)
       IN  matchCount > 1

\* SecurityHelper.detectPathTraversal: any pattern of the list matches.
detectPathTraversal(input) ==
  IF input.type # "string" THEN FALSE
  ELSE LET s == input.val
       IN  \/ Includes(s, Str("../"))
           \/ Includes(s, Str("..\\"))
           \/ IncludesCI(s, Str("..%2f"))
           \/ IncludesCI(s, Str("..%5c"))
           \* /^\/[a-z]:/gi
           \/ /\ At(s, 1) = "/"
              /\ LowerChar(At(s, 2)) \in LowerLetters
              /\ At(s, 3) = ":"
           \/ IncludesCI(s, Str("etc/passwd"))
           \/ IncludesCI(s, Str("windows/system32"))
           \/ IncludesCI(s, Str("winnt/system32"))

\* maxLengths[fieldName]; 0 (falsy, like undefined) for any other field.
maxLengths(fieldName) ==
  CASE fieldName = "name" -> 100
    [] fieldName = "email" -> 255
    [] fieldName = "message" -> 5000
    [] OTHER -> 0

\* Mutant of validateInputSecurity: path traversal is tested before command
\* injection.
validateInputSecurityPathFirst(f, in) ==
  IF in.type # "string"
    THEN [valid |-> FALSE, threat |-> "Non-string input detected"]
  ELSE IF maxLengths(f) # 0 /\ Len(in.val) > maxLengths(f)
    THEN [valid |-> FALSE, threat |-> "Input exceeds maximum length"]
  ELSE IF detectSQLInjection(in)
    THEN [valid |-> FALSE, threat |-> "SQL injection attempt detected"]
  ELSE IF detectXSSInjection(in)
    THEN [valid |-> FALSE, threat |-> "XSS injection attempt detected"]
  ELSE IF detectNoSQLInjection(in)
    THEN [valid |-> FALSE, threat |-> "NoSQL injection attempt detected"]
  ELSE IF detectLDAPInjection(in)
    THEN [valid |-> FALSE, threat |-> "LDAP injection attempt detected"]
  ELSE IF detectPathTraversal(in)
    THEN [valid |-> FALSE, threat |-> "Path traversal attempt detected"]
  ELSE IF detectCommandInjection(in)
    THEN [valid |-> FALSE, threat |-> "Command injection attempt detected"]
  ELSE [valid |-> TRUE, threat |-> null]

\* SecurityHelper.validateInputSecurity
validateInputSecurity(f, in) ==
  IF in.type # "string"
    THEN [valid |-> FALSE, threat |-> "Non-string input detected"]
  ELSE IF maxLengths(f) # 0 /\ Len(in.val) > maxLengths(f)
    THEN [valid |-> FALSE, threat |-> "Input exceeds maximum length"]
  ELSE IF detectSQLInjection(in)
    THEN [valid |-> FALSE, threat |-> "SQL injection attempt detected"]
  ELSE IF detectXSSInjection(in)
    THEN [valid |-> FALSE, threat |-> "XSS injection attempt detected"]
  ELSE IF detectNoSQLInjection(in)
    THEN [valid |-> FALSE, threat |-> "NoSQL injection attempt detected"]
  ELSE IF detectLDAPInjection(in)
    THEN [valid |-> FALSE, threat |-> "LDAP injection attempt detected"]
  ELSE IF detectCommandInjection(in)
    THEN [valid |-> FALSE, threat |-> "Command injection attempt detected"]
  ELSE IF detectPathTraversal(in)
    THEN [valid |-> FALSE, threat |-> "Path traversal attempt detected"]
  ELSE [valid |-> TRUE, threat |-> null]

\* SecurityHelper.validateHoneypot: !honeypotValue || honeypotValue.trim() === ''
validateHoneypot(honeypotValue) ==
  honeypotValue = <<>> \/ Trim(honeypotValue) = <<>>

\* ------------------------------------------------------------------------
\* SecurityHelper: rate limiter over localStorage
\* ------------------------------------------------------------------------

\* The window of checkRateLimit, in milliseconds.
WindowMs == 60000

\* The number of submissions the window admits.
MaxSubmissions == 5

\* JSON.stringify of an array of numbers: "[", the elements separated by
\* ",", then "]", as a sequence of tokens.
JsonStringify(a) ==
  <<"[">> \o [i \in 1..(2 * Len(a) - 1) |-> IF i % 2 = 1 THEN a[(i + 1) \div 2] ELSE ","]
          \o <<"]">>

\* JSON.parse of such a text: the tokens between the brackets that stand at
\* the odd places.
JsonParse(text) ==
  [i \in 1..((Len(text) - 1) \div 2) |-> text[2 * i]]

\* Storage.getItem(key) || '[]'
GetItemOrEmpty(storage, key) ==
  IF key \in DOMAIN storage THEN storage[key] ELSE <<"[", "]">>

\* Storage.setItem(key, value)
SetItem(storage, key, value) ==
  [k \in DOMAIN storage \cup {key} |-> IF k = key THEN value ELSE storage[k]]

\* The key checkRateLimit keeps its log under.
RateLimitKey == "form_submission_times"

\* Mutant of RecentSubmissions: an entry exactly one window old still counts.
RecentSubmissionsInclusive(storage, t) ==
  SelectSeq(JsonParse(GetItemOrEmpty(storage, RateLimitKey)),
            LAMBDA time : t - time <= WindowMs)

\* submissions.filter(time => now - time < 60000)
RecentSubmissions(storage, t) ==
  SelectSeq(JsonParse(GetItemOrEmpty(storage, RateLimitKey)),
            LAMBDA time : t - time < WindowMs)

\* Mutant of RateLimitAdmits: the capacity test is > instead of >=.
RateLimitAdmitsOneMore(storage, t) ==
  ~(Len(RecentSubmissions(storage, t)) > MaxSubmissions)

\* What checkRateLimit returns at time t.
RateLimitAdmits(storage, t) ==
  ~(Len(RecentSubmissions(storage, t)) >= MaxSubmissions)

\* Mutant of RateLimitStorage: the attempt is recorded before the capacity
\* test, so a rejected attempt is written too.
RateLimitStorageChecksOnly(storage, t) == storage

RateLimitStorageRecordsRejected(storage, t) ==
  SetItem(storage, RateLimitKey,
          JsonStringify(Append(RecentSubmissions(storage, t), t)))

\* The storage checkRateLimit leaves behind at time t.
RateLimitStorage(storage, t) ==
  IF RateLimitAdmits(storage, t)
  THEN SetItem(storage, RateLimitKey,
               JsonStringify(Append(RecentSubmissions(storage, t), t)))
  ELSE storage

\* ------------------------------------------------------------------------
\* FormHandler: field validators
\* ------------------------------------------------------------------------

\* nameRegex.test(s): /^[a-zA-Z\s'-]+$/
nameRegex(s) ==
  /\ Len(s) >= 1
  /\ \A i \in 1..Len(s) :
       s[i] \in LowerLetters \cup UpperLetters \cup WhiteSpace \cup {"'", "-"}

\* isNameValid: name && nameRegex.test(name), as a truth value
isNameValid(name) == name # <<>> /\ nameRegex(name)

\* emailRegex.test(s): /^[^\s@]+@[^\s@]+\.[^\s@]+$/
emailRegex(s) ==
  \E a \in 2..Len(s) :
    /\ s[a] = "@"
    /\ \A i \in 1..Len(s) : s[i] \notin WhiteSpace /\ (s[i] = "@" => i = a)
    /\ \E d \in (a + 2)..(Len(s) - 1) : s[d] = "."

\* String.prototype.split('@'): the pieces between the separators.
SplitAt(s, sep) ==
  LET cuts == {i \in 1..Len(s) : s[i] = sep}
      nth(j) == IF j = 0 THEN 0
                ELSE IF j > Cardinality(cuts) THEN Len(s) + 1
                ELSE CHOOSE i \in cuts : Cardinality({x \in cuts : x < i}) = j - 1
  IN [j \in 1..(Cardinality(cuts) + 1) |-> SubSeq(s, nth(j - 1) + 1, nth(j) - 1)]

\* The generic user names isValidUsername rejects.
genericNames ==
  {"test", "admin", "user", "demo", "guest", "noreply",
   "no-reply", "support", "info", "contact", "hello",
   "example", "sample", "temp", "tmp", "new", "test123"}

\* The keyboard runs isValidUsername rejects anywhere in the user name.
keyboardPatterns ==
  {"asdf", "qwerty", "qwert", "qwer", "qwe",
   "zxcv", "zxc", "zx", "asd", "asfj", "dfgh",
   "1234", "123", "12345", "abcd", "abc"}

\* The character class [bcdfghjklmnpqrstvwxyz]
Consonants == LowerLetters \ {"a", "e", "i", "o", "u"}

\* RegExp class{n,} under the i flag: n consecutive characters of set.
HasRun(s, set, n) ==
  \E i \in 1..(Len(s) - n + 1) : \A k \in i..(i + n - 1) : LowerChar(s[k]) \in set

\* (s.match(/[set]/gi) || []).length
CountIn(s, set) == Cardinality({i \in 1..Len(s) : LowerChar(s[i]) \in set})

\* Mutant of isValidUsername: the list of generic names is not consulted.
isValidUsernameNoGeneric(username) ==
  LET lowerUsername == ToLowerCase(username)
      maxConsonantRow == IF Len(username) <= 4 THEN 3 ELSE 6
      vowels == CountIn(lowerUsername, {"a", "e", "i", "o", "u"})
  IN IF Len(username) < 3 THEN [valid |-> FALSE, reason |-> "short"]
     ELSE IF \E p \in keyboardPatterns : Includes(lowerUsername, Str(p))
       THEN [valid |-> FALSE, reason |-> "keyboard"]
     ELSE IF HasRun(lowerUsername, Consonants, maxConsonantRow + 1)
       THEN [valid |-> FALSE, reason |-> "gibberish"]
     ELSE IF Len(username) \in {3, 4}
       THEN (IF vowels = 0 THEN [valid |-> FALSE, reason |-> "gibberish"]
             ELSE [valid |-> TRUE, reason |-> null])
     ELSE IF 5 * vowels < Len(username)
       THEN [valid |-> FALSE, reason |-> "gibberish"]
     ELSE [valid |-> TRUE, reason |-> null]

\* FormHandler.isValidUsername: { valid, reason }
isValidUsername(username) ==
  LET lowerUsername == ToLowerCase(username)
      maxConsonantRow == IF Len(username) <= 4 THEN 3 ELSE 6
      vowels == CountIn(lowerUsername, {"a", "e", "i", "o", "u"})
  IN IF Len(username) < 3 THEN [valid |-> FALSE, reason |-> "short"]
     ELSE IF \E g \in genericNames : lowerUsername = Str(g)
       THEN [valid |-> FALSE, reason |-> "generic"]
     ELSE IF \E p \in keyboardPatterns : Includes(lowerUsername, Str(p))
       THEN [valid |-> FALSE, reason |-> "keyboard"]
     ELSE IF HasRun(lowerUsername, Consonants, maxConsonantRow + 1)
       THEN [valid |-> FALSE, reason |-> "gibberish"]
     ELSE IF Len(username) \in {3, 4}
       THEN (IF vowels = 0 THEN [valid |-> FALSE, reason |-> "gibberish"]
             ELSE [valid |-> TRUE, reason |-> null])
     \* vowels / username.length < 0.2
     ELSE IF 5 * vowels < Len(username)
       THEN [valid |-> FALSE, reason |-> "gibberish"]
     ELSE [valid |-> TRUE, reason |-> null]

\* The mail providers detectDomainTypo compares a domain with, in the
\* order of the array.
commonDomains ==
  <<"gmail.com", "yahoo.com", "outlook.com", "hotmail.com",
    "protonmail.com", "icloud.com", "mail.com", "aol.com",
    "gmx.com", "yandex.com", "company.com", "business.com">>

\* The smaller of two numbers.
Min2(a, b) == IF a <= b THEN a ELSE b

\* FormHandler.levenshteinDistance: the matrix is filled row by row, a row
\* for each character of str2 and a column for each character of str1.
RECURSIVE LevRow(_, _, _, _)
LevRow(prev, c, str1, row) ==
  IF Len(row) = Len(str1) + 1 THEN row
  ELSE LET j == Len(row)
           cell == IF c = str1[j] THEN prev[j]
                   ELSE Min2(prev[j] + 1, Min2(row[j] + 1, prev[j + 1] + 1))
           next == Append(row, cell)
       IN IF Len(next) > j THEN LevRow(prev, c, str1, next) ELSE next

RECURSIVE LevRows(_, _, _, _)
LevRows(str1, str2, i, prev) ==
  IF i > Len(str2) THEN prev
  ELSE LET row == LevRow(prev, str2[i], str1, <<i>>)
       IN IF Len(row) > 0 THEN LevRows(str1, str2, i + 1, row) ELSE row

levenshteinDistance(str1, str2) ==
  LevRows(str1, str2, 1, [j \in 1..(Len(str1) + 1) |-> j - 1])[Len(str1) + 1]

\* FormHandler.isKnownDomain
isKnownDomain(domain) ==
  \E k \in 1..Len(commonDomains) : ToLowerCase(domain) = Str(commonDomains[k])

\* Mutant of detectDomainTypo: the distances are tried without the test for
\* a known domain before them.
detectDomainTypoNoKnownTest(domain) ==
  LET lowerDomain == ToLowerCase(domain)
      distance(k) == levenshteinDistance(lowerDomain, Str(commonDomains[k]))
      maxDistance(k) == (3 * Len(Str(commonDomains[k])) + 9) \div 10
      near == {k \in 1..Len(commonDomains) :
                 distance(k) <= maxDistance(k) /\ distance(k) > 0}
      best == CHOOSE k \in near :
                \A m \in near : distance(k) < distance(m)
                                \/ (distance(k) = distance(m) /\ k <= m)
  IN IF near # {} THEN [typo |-> TRUE, suggestion |-> commonDomains[best]]
     ELSE [typo |-> FALSE, suggestion |-> null]

\* FormHandler.detectDomainTypo: { typo, suggestion }. The loop keeps the
\* first provider of the smallest distance d with 0 < d <= ceil(0.3 * length).
detectDomainTypo(domain) ==
  LET lowerDomain == ToLowerCase(domain)
      distance(k) == levenshteinDistance(lowerDomain, Str(commonDomains[k]))
      maxDistance(k) == (3 * Len(Str(commonDomains[k])) + 9) \div 10
      near == {k \in 1..Len(commonDomains) :
                 distance(k) <= maxDistance(k) /\ distance(k) > 0}
      best == CHOOSE k \in near :
                \A m \in near : distance(k) < distance(m)
                                \/ (distance(k) = distance(m) /\ k <= m)
  IN IF isKnownDomain(domain) THEN [typo |-> FALSE, suggestion |-> null]
     ELSE IF near # {} THEN [typo |-> TRUE, suggestion |-> commonDomains[best]]
     ELSE [typo |-> FALSE, suggestion |-> null]

\* Mutant of validateEmailLocal: the domain is examined before the user
\* name.
validateEmailLocalDomainFirst(email) ==
  LET parts == SplitAt(email, "@")
      usernameCheck == isValidUsername(parts[1])
      domainCheck == detectDomainTypo(parts[2])
      reasons == [generic |-> "That username looks like a test account. Please use a real name or email.",
                  keyboard |-> "That username looks like a keyboard pattern. Please use a real name.",
                  short |-> "Username is too short. Use at least 3 characters.",
                  gibberish |-> "That username looks like gibberish. Please use a real name."]
  IN IF email = <<>> THEN [valid |-> TRUE, error |-> null]
     ELSE IF ~emailRegex(email) THEN [valid |-> FALSE, error |-> "Invalid email format"]
     ELSE IF domainCheck.typo
       THEN [valid |-> FALSE,
             error |-> "Did you mean " \o domainCheck.suggestion
                       \o "? That looks like a typo in the domain."]
     ELSE IF ~usernameCheck.valid
       THEN [valid |-> FALSE, error |-> reasons[usernameCheck.reason]]
     ELSE [valid |-> TRUE, error |-> null]

\* FormHandler.validateEmailLocal: { valid, error }
validateEmailLocal(email) ==
  LET parts == SplitAt(email, "@")
      usernameCheck == isValidUsername(parts[1])
      domainCheck == detectDomainTypo(parts[2])
      reasons == [generic |-> "That username looks like a test account. Please use a real name or email.",
                  keyboard |-> "That username looks like a keyboard pattern. Please use a real name.",
                  short |-> "Username is too short. Use at least 3 characters.",
                  gibberish |-> "That username looks like gibberish. Please use a real name."]
  IN IF email = <<>> THEN [valid |-> TRUE, error |-> null]
     ELSE IF ~emailRegex(email) THEN [valid |-> FALSE, error |-> "Invalid email format"]
     ELSE IF ~usernameCheck.valid
       THEN [valid |-> FALSE, error |-> reasons[usernameCheck.reason]]
     ELSE IF domainCheck.typo
       THEN [valid |-> FALSE,
             error |-> "Did you mean " \o domainCheck.suggestion
                       \o "? That looks like a typo in the domain."]
     ELSE [valid |-> TRUE, error |-> null]

\* FormHandler.isEmailValid
isEmailValid(email) == email # <<>> /\ validateEmailLocal(email).valid

\* The provider list of isSuspiciousDomain, in the order of the array.
isSuspiciousDomain_commonDomains ==
  <<"gmail", "gmail.com", "yahoo", "yahoo.com", "outlook", "outlook.com",
    "hotmail", "hotmail.com", "protonmail", "protonmail.com",
    "aol", "aol.com", "icloud", "icloud.com", "mail", "mail.com",
    "google", "google.com", "facebook", "facebook.com">>

\* isSuspiciousDomain of the domain typo test: the names before the first
\* dot are compared; an exact match with any provider ends the test before
\* a distance is computed.  Math.ceil(maxLen * 0.4) is (4 * maxLen + 9) \div 10.
isSuspiciousDomain(domain) ==
  LET domainName == ToLowerCase(SplitAt(domain, ".")[1])
      commonName(k) == ToLowerCase(SplitAt(Str(isSuspiciousDomain_commonDomains[k]), ".")[1])
      distance(k) == levenshteinDistance(domainName, commonName(k))
      maxLen(k) == IF Len(domainName) >= Len(commonName(k))
                   THEN Len(domainName) ELSE Len(commonName(k))
      all == 1..Len(isSuspiciousDomain_commonDomains)
  IN IF \E k \in all : domainName = commonName(k) THEN FALSE
     ELSE \E k \in all : /\ distance(k) > 0
                         /\ distance(k) <= 3
                         /\ distance(k) <= (4 * maxLen(k) + 9) \div 10

\* ------------------------------------------------------------------------
\* MessageAnalyzer
\* ------------------------------------------------------------------------

\* String.prototype.split(/[set]+/): the pieces between the maximal runs of
\* characters of set; a run at either end leaves an empty piece there.
SplitRuns(s, set) ==
  LET starts == {i \in 1..Len(s) : s[i] \in set /\ (i = 1 \/ s[i - 1] \notin set)}
      ends == {i \in 1..Len(s) : s[i] \in set /\ (i = Len(s) \/ s[i + 1] \notin set)}
      nth(S, j) == CHOOSE i \in S : Cardinality({x \in S : x < i}) = j - 1
      from(j) == IF j = 1 THEN 1 ELSE nth(ends, j - 1) + 1
      to(j) == IF j > Cardinality(starts) THEN Len(s) ELSE nth(starts, j) - 1
  IN [j \in 1..(Cardinality(starts) + 1) |-> SubSeq(s, from(j), to(j))]

\* The phrases isSpam looks for in the lower-cased text.
SPAM_KEYWORDS ==
  {"viagra", "cialis", "poker", "casino", "lottery", "prize", "winner",
   "click here", "buy now", "limited offer", "act now", "call now", "visit",
   "free money", "easy money", "make money", "earn cash", "work from home",
   "bitcoin", "cryptocurrency", "forex", "trading", "stock tips",
   "weight loss", "diet pills", "supplements", "skincare",
   "free trial", "no credit card", "unsubscribe", "click below",
   "nigerian prince", "inheritance", "transfer funds", "bank account",
   "confirm password", "update payment", "verify account", "click link"}

\* MessageAnalyzer.isSpam
isSpam(text) ==
  LET lower == ToLowerCase(text)
      urlCount == Cardinality({i \in 1..Len(text) :
                                 \/ MatchAtCI(text, i, Str("http://"))
                                 \/ MatchAtCI(text, i, Str("https://"))
                                 \/ MatchAtCI(text, i, Str("www."))})
  IN \/ \E keyword \in SPAM_KEYWORDS : Includes(lower, Str(keyword))
     \/ urlCount > 1
     \/ Cardinality({i \in 1..Len(text) : text[i] = "@"}) > 2

\* MessageAnalyzer.isGibberish
isGibberish(text) ==
  LET vowels == CountIn(text, {"a", "e", "i", "o", "u"})
      consonants == CountIn(text, Consonants)
      total == vowels + consonants
  IN \* /([a-z])\1{3,}/i
     \/ \E i \in 1..(Len(text) - 3) :
          /\ LowerChar(text[i]) \in LowerLetters
          /\ \A k \in (i + 1)..(i + 3) : LowerChar(text[k]) = LowerChar(text[i])
     \/ HasRun(text, Consonants, 7)
     \* vowelRatio < 0.2 || vowelRatio > 0.8
     \/ (total > 0 /\ (5 * vowels < total \/ 5 * vowels > 4 * total))

\* Keys an empty object literal already answers to: wordCount[key] || 0 is
\* then not a number, and neither is the count kept under that key.
InheritedKeys == {Str("constructor"), Str("__proto__")}

\* MessageAnalyzer.isRepetitive
isRepetitive(text) ==
  LET words == SplitRuns(ToLowerCase(text), WhiteSpace)
      wordCount(w) == Cardinality({i \in 1..Len(words) : words[i] = w})
      phrases == SplitRuns(ToLowerCase(text), {".", "!", "?"})
      phraseCounts(p) == Cardinality({i \in 1..Len(phrases) : Trim(phrases[i]) = p})
  IN \* wordCount[word] / words.length > 0.3
     \/ \E i \in 1..Len(words) :
          /\ Len(words[i]) > 2
          /\ words[i] \notin InheritedKeys
          /\ 10 * wordCount(words[i]) > 3 * Len(words)
     \/ /\ Len(phrases) > 2
        /\ \E i \in 1..Len(phrases) :
             /\ Len(Trim(phrases[i])) > 10
             /\ Trim(phrases[i]) \notin InheritedKeys
             /\ phraseCounts(Trim(phrases[i])) > 1

\* Mutant of hasRealContent: at least 6 words are asked for.
hasRealContentSixWords(text) ==
  LET words == SplitRuns(Trim(text), WhiteSpace)
      nonSpace == Cardinality({i \in 1..Len(text) : text[i] \notin WhiteSpace})
  IN /\ Len(text) >= 20
     /\ Len(words) >= 6
     /\ \E i \in 1..Len(text) : text[i] \in {".", "!", "?"}
     /\ \E i \in 1..Len(text) : text[i] \in UpperLetters
     /\ nonSpace >= 2 * Len(words)

\* MessageAnalyzer.hasRealContent
hasRealContent(text) ==
  LET words == SplitRuns(Trim(text), WhiteSpace)
      nonSpace == Cardinality({i \in 1..Len(text) : text[i] \notin WhiteSpace})
  IN /\ Len(text) >= 20
     /\ Len(words) >= 5
     /\ \E i \in 1..Len(text) : text[i] \in {".", "!", "?"}
     /\ \E i \in 1..Len(text) : text[i] \in UpperLetters
     \* avgWordLength < 2 fails
     /\ nonSpace >= 2 * Len(words)

\* MessageAnalyzer.validateMessage: { valid, issues }
validateMessage(text) ==
  LET words == SplitRuns(Trim(text), WhiteSpace)
      sentences == SelectSeq(SplitRuns(text, {".", "!", "?"}),
                             LAMBDA s : Len(Trim(s)) > 0)
      issue(cond, msg) == IF cond THEN <<msg>> ELSE <<>>
      issues ==
        issue(Len(text) < 20, "Message is too short (minimum 20 characters)")
        \o issue(Len(words) < 5, "Message must contain at least 5 words")
        \o issue(isSpam(text), "Message appears to be spam")
        \o issue(isGibberish(text), "Message contains nonsensical content")
        \o issue(isRepetitive(text), "Message has excessive repetition")
        \o issue(~hasRealContent(text), "Message lacks meaningful content")
        \o issue(Len(sentences) = 0, "Message must contain at least one complete sentence")
  IN [valid |-> Len(issues) = 0, issues |-> issues]

\* FormHandler.isMessageValid; MessageAnalyzer is defined by the time a
\* handler runs, so the fallback branch is not taken.
isMessageValid(message) ==
  message # <<>> /\ validateMessage(message).valid

\* ------------------------------------------------------------------------
\* SecurityHelper: CSRF token in sessionStorage
\* ------------------------------------------------------------------------

\* The key the token is kept under.
CsrfKey == "csrf_token"

\* Values of generateCSRFToken: btoa(Math.random().toString()).substring(0, 32)
\* for the random numbers 0.5 and 0.25.
RandomTokens == {"MC41", "MC4yNQ=="}

\* Mutant of getCSRFToken: a token is generated at every call.
getCSRFTokenAlwaysFresh(storage, fresh) ==
  [token |-> fresh, storage |-> SetItem(storage, CsrfKey, fresh), generated |-> 1]

\* SecurityHelper.getCSRFToken: sessionStorage.getItem('csrf_token') ||
\* setCSRFToken(), where generateCSRFToken would return fresh. The result is
\* the token, the storage left behind and the number of tokens generated.
getCSRFToken(storage, fresh) ==
  IF CsrfKey \in DOMAIN storage /\ storage[CsrfKey] # ""
  THEN [token |-> storage[CsrfKey], storage |-> storage, generated |-> 0]
  ELSE [token |-> fresh, storage |-> SetItem(storage, CsrfKey, fresh), generated |-> 1]

\* ------------------------------------------------------------------------
\* FormHandler: the submit handler
\* ------------------------------------------------------------------------

\* updateButtonState: the value of submitBtn.disabled for the three field
\* values.
updateButtonState(name, email, message) ==
  \/ ~isNameValid(Trim(name))
  \/ ~isEmailValid(Trim(email))
  \/ ~isMessageValid(Trim(message))

\* Mutant of handleFormSubmitReturn: the rate limiter is consulted before
\* the honeypot.
handleFormSubmitReturnRateFirst(honeypot, admits, name, email, message) ==
  IF ~admits THEN "rate-limit"
  ELSE IF ~validateHoneypot(honeypot) THEN "honeypot"
  ELSE IF ~validateInputSecurity("name", JsString(name)).valid THEN "name-threat"
  ELSE IF ~validateInputSecurity("email", JsString(email)).valid THEN "email-threat"
  ELSE IF ~validateInputSecurity("message", JsString(message)).valid THEN "message-threat"
  ELSE IF ~isNameValid(sanitizeInput(JsString(name))) THEN "name-invalid"
  ELSE IF ~isEmailValid(sanitizeInput(JsString(email))) THEN "email-invalid"
  ELSE IF ~isMessageValid(sanitizeInput(JsString(message))) THEN "message-invalid"
  ELSE "sent"

\* The return site through which handleFormSubmit leaves, for the values of
\* the four fields and the answer admits of checkRateLimit: the checks in the
\* order of the handler, "sent" when it reaches fetch.
handleFormSubmitReturn(honeypot, admits, name, email, message) ==
  IF ~validateHoneypot(honeypot) THEN "honeypot"
  ELSE IF ~admits THEN "rate-limit"
  ELSE IF ~validateInputSecurity("name", JsString(name)).valid THEN "name-threat"
  ELSE IF ~validateInputSecurity("email", JsString(email)).valid THEN "email-threat"
  ELSE IF ~validateInputSecurity("message", JsString(message)).valid THEN "message-threat"
  ELSE IF ~isNameValid(sanitizeInput(JsString(name))) THEN "name-invalid"
  ELSE IF ~isEmailValid(sanitizeInput(JsString(email))) THEN "email-invalid"
  ELSE IF ~isMessageValid(sanitizeInput(JsString(message))) THEN "message-invalid"
  ELSE "sent"

\* Mutant of formData: the field values are sent as they were typed.
formDataRaw(name, email, message, token) ==
  [name |-> name, email |-> email, message |-> message,
   _captcha |-> "false", csrf_token |-> token]

\* The FormData handleFormSubmit posts: each field value through
\* sanitizeInput before validation and once more when it is appended.
formData(name, email, message, token) ==
  LET twice(v) == sanitizeInput(JsString(sanitizeInput(JsString(v))))
  IN [name |-> twice(name), email |-> twice(email), message |-> twice(message),
      _captcha |-> "false", csrf_token |-> token]

\* ------------------------------------------------------------------------
\* SemanticNameValidator: assets/js/name-validator.js and its copy with a
\* blacklist
\* ------------------------------------------------------------------------

\* A sequence of characters as one string, for Set.prototype.has.
RECURSIVE Text(_)
Text(s) == IF s = <<>> THEN "" ELSE s[1] \o Text(Tail(s))

\* The value of a property the object does not have.
undefined == "undefined"

\* SemanticNameValidator: the names whose first three letters count as a name prefix.
NAME_PREFIXES ==
  {"john", "james", "mary", "robert", "michael", "william", "david",
   "richard", "joseph", "charles", "thomas", "daniel", "matthew", "anthony",
   "mark", "donald", "steven", "paul", "andrew", "kenneth", "jose", "carlos",
   "juan", "luis", "maria", "carmen", "rosa", "ana", "jean", "pierre",
   "marie", "jacques", "philippe", "anna", "giovanni", "antonio", "marco",
   "giuseppe", "franco", "patricia", "barbara", "elizabeth", "susan",
   "jessica", "sarah", "karen", "nancy", "betty", "margaret", "sandra",
   "ashley", "kimberly", "emily", "donna", "michelle", "dorothy", "carol",
   "amanda", "melissa", "deborah", "stephanie", "rebecca", "sharon", "laura",
   "cynthia", "ivan", "sergei", "nikolai", "alexei", "vladimir", "takeshi",
   "toshiro", "kenji", "hiroshi", "alexand", "oleg", "dmitri", "boris",
   "mohammad", "abdul", "ahmed", "hassan", "hussein", "ibrahim", "fatima",
   "aisha", "ali", "amin", "karim", "malik", "nasser"}

\* SemanticNameValidator: the endings that count as a name suffix.
NAME_SUFFIXES ==
  {"ia", "na", "ak", "ov", "ska", "indo", "sso", "el", "an", "en", "on",
   "er", "ar", "ur", "or", "ir", "la", "lo", "li", "le", "a", "o", "e", "h",
   "t", "d", "n", "s", "x", "z", "i", "ch", "sh", "th", "ina", "enko", "eva",
   "ova", "vich", "zer", "sen", "son", "ten", "man", "men", "berg", "stein",
   "baum", "ski", "czyk", "wicz", "sky", "dze"}

\* SemanticNameValidator with the blacklist: the words looksLikeHumanName never takes for a name.
BLACKLIST ==
  {"nerd", "geek", "dork", "lol", "omg", "wtf", "btw", "fyi", "asap", "aka",
   "lmao", "rofl", "smh", "fml", "lololol", "test", "admin", "user", "guest",
   "root", "temp", "demo", "fake", "noname", "nobody", "unknown", "anon",
   "spam", "bot", "robot", "script", "code", "html", "java", "python", "css",
   "json", "xml", "api", "sql", "hack", "virus", "trojan", "malware", "worm",
   "exploit", "payload", "sudo", "pass", "password", "login", "default",
   "system", "kernel", "driver", "config", "debug", "null", "void", "error",
   "fail", "crash", "bug", "glitch", "lag", "test1", "test2", "test123",
   "user1", "admin1", "test456", "dummyname", "dummy", "example", "sample",
   "placeholder", "firstname", "lastname", "middlename", "fullname", "asdf",
   "qwerty", "qwer", "zxcv", "abcd", "abcdef", "aaa", "bbb", "ccc", "ddd",
   "eee", "fff", "ggg", "hhh", "iii", "jjj", "kkk", "lll", "mmm", "nnn",
   "ooo", "ppp", "qqq", "rrr", "sss", "ttt", "uuu", "vvv", "www", "xxx",
   "yyy", "zzz", "able", "about", "above", "ache", "acid", "aged", "aide",
   "also", "arch", "area", "arts", "atom", "bank", "bare", "barn", "base",
   "bath", "bean", "bear", "beat", "been", "bell", "belt", "bend", "bent",
   "best", "bike", "bird", "bite", "blow", "blue", "boat", "body", "bone",
   "book", "boom", "boot", "born", "boss", "both", "bowl", "bulk", "burn",
   "bush", "busy", "buzz", "call", "calm", "came", "camp", "card", "care",
   "cart", "case", "cast", "cell", "cent", "chin", "chip", "chop", "cite",
   "city", "clap", "clay", "clip", "club", "coal", "coat", "cold", "come",
   "cone", "cook", "cool", "cord", "core", "corn", "cost", "crab", "crew",
   "crop", "curl", "cute", "dare", "dark", "darn", "dash", "date", "dawn",
   "dead", "deaf", "deal", "dear", "debt", "deck", "deep", "deer", "desk",
   "dial", "died", "diet", "dime", "dine", "disk", "dive", "dock", "doll",
   "dome", "done", "door", "dove", "down", "drag", "draw", "drew", "drop",
   "drug", "drum", "dual", "duck", "dull", "dump", "dust", "duty", "dwell",
   "each", "earl", "earn", "ease", "east", "easy", "echo", "edge", "edit",
   "else", "emit", "ends", "epic", "even", "ever", "evil", "exam", "exit",
   "face", "fact", "fair", "fall", "fame", "fare", "farm", "fast", "fate",
   "fear", "feel", "feet", "fell", "felt", "fern", "fest", "file", "fill",
   "film", "find", "fine", "fire", "firm", "fish", "fist", "five", "flag",
   "flat", "fled", "flee", "flew", "flip", "flow", "foam", "fold", "folk",
   "fond", "food", "fool", "foot", "fore", "fork", "form", "fort", "foul",
   "four", "fowl", "free", "from", "fuel", "full", "fume", "fund", "fung",
   "fury", "fuse", "gain", "game", "gang", "gate", "gave", "gaze", "gear",
   "gene", "germ", "gift", "gild", "gill", "girl", "give", "glad", "glen",
   "glow", "glue", "goat", "goes", "gold", "golf", "gone", "good", "grab",
   "grad", "gram", "gray", "grew", "grid", "grim", "grin", "grip", "grit",
   "grow", "gulf", "gust", "hail", "hair", "half", "hall", "halo", "halt",
   "hand", "hang", "hare", "harm", "harp", "hash", "hate", "haul", "have",
   "hawk", "haze", "head", "heal", "heap", "hear", "heat", "heck", "heel",
   "heir", "held", "hell", "helm", "help", "hemp", "herb", "herd", "here",
   "hero", "hide", "high", "hike", "hill", "hilt", "hind", "hint", "hire",
   "hive", "hold", "hole", "holy", "home", "hood", "hoof", "hook", "hoop",
   "hoot", "hope", "horn", "hose", "host", "hour", "howl", "huge", "hulk",
   "hump", "hung", "hunt", "hurl", "hurt", "hush", "icon", "idea", "idle",
   "inch", "info", "into", "iron", "isle", "itch", "item", "jail", "joke",
   "jolt", "jump", "junk", "jury", "just", "jute", "keen", "keep", "kept",
   "kick", "kill", "kilt", "kind", "king", "kiss", "kite", "knew", "knit",
   "knot", "know", "lace", "lack", "lacy", "lady", "laid", "lake", "lamb",
   "lame", "lamp", "land", "lane", "lard", "lark", "lash", "lass", "last",
   "late", "lath", "laud", "lava", "lawn", "lazy", "lead", "leaf", "leak",
   "lean", "leap", "left", "lend", "lens", "lent", "less", "liar", "lice",
   "lick", "life", "lift", "like", "limb", "lime", "limp", "line", "link",
   "lint", "lion", "list", "lite", "live", "load", "loaf", "loam", "loan",
   "lock", "loft", "lone", "long", "look", "loom", "loop", "lord", "lore",
   "lose", "loss", "loud", "love", "luck", "lump", "lung", "lure", "lurk",
   "mace", "made", "maid", "mail", "maim", "main", "make", "male", "mall",
   "malt", "mane", "many", "mare", "mark", "mars", "mart", "mash", "mask",
   "mass", "mast", "mate", "math", "maze", "mead", "meal", "mean", "meat",
   "meek", "meet", "meld", "melt", "memo", "mend", "menu", "meow", "mere",
   "mesh", "mess", "mice", "mild", "mile", "milk", "mill", "mime", "mind",
   "mine", "mint", "mire", "miss", "mist", "mite", "mitt", "moan", "moat",
   "mock", "mode", "mold", "mole", "molt", "monk", "mood", "moon", "moor",
   "mope", "more", "moss", "most", "moth", "move", "much", "mule", "mull",
   "muse", "mush", "must", "mute", "myth", "nail", "name", "nape", "navy",
   "near", "neat", "neck", "need", "nest", "news", "next", "nice", "nick",
   "noun", "nose", "note", "nude", "numb", "oath", "obey", "odor", "okay",
   "once", "only", "onto", "ooze", "open", "oral", "orca", "ores", "ours",
   "oust", "oven", "over", "oval", "pace", "pack", "page", "paid", "pail",
   "pain", "pair", "pale", "palm", "pane", "pang", "park", "part", "path",
   "pave", "peak", "peal", "pear", "peck", "peel", "peer", "pelt", "pent",
   "pest", "pick", "pier", "pike", "pile", "pill", "pine", "pink", "pint",
   "pipe", "pith", "pity", "plan", "play", "plea", "plod", "plot", "plow",
   "ploy", "plug", "plum", "plus", "poem", "poet", "poke", "pole", "poll",
   "pond", "pony", "pool", "poor", "pope", "pore", "pork", "port", "pose",
   "post", "pour", "pout", "pray", "prim", "prod", "prom", "prop", "prow",
   "pull", "pulp", "pump", "punk", "punt", "puny", "pupa", "pure", "purr",
   "push", "race", "rack", "raft", "rage", "raid", "rail", "rain", "rake",
   "ramp", "rang", "rank", "rare", "rash", "rasp", "rate", "rave", "raze",
   "read", "real", "ream", "reap", "rear", "reck", "reel", "rely", "rend",
   "rent", "rest", "rice", "rich", "ride", "rife", "rift", "ring", "rink",
   "riot", "ripe", "rise", "risk", "rite", "road", "roam", "roar", "robe",
   "rock", "rode", "role", "roll", "romp", "roof", "room", "rope", "rose",
   "rosy", "rote", "rout", "rove", "rude", "ruin", "rule", "rung", "runt",
   "ruse", "rush", "rust", "sack", "safe", "saga", "sage", "said", "sail",
   "sake", "sale", "salt", "same", "sand", "sane", "sang", "sank", "sash",
   "save", "sawn", "seal", "seam", "sear", "seas", "seat", "sect", "seed",
   "seek", "seem", "seen", "self", "sell", "send", "sent", "shed", "shim",
   "shin", "ship", "shod", "shoe", "shoo", "shop", "shot", "show", "shun",
   "shut", "sick", "side", "sigh", "sign", "silk", "sill", "silt", "sing",
   "sink", "site", "size", "skew", "skip", "skit", "slab", "slag", "slam",
   "slap", "slat", "slaw", "sled", "slew", "slid", "slim", "slip", "slit",
   "slob", "sloe", "slog", "slop", "slot", "slow", "slug", "slum", "smog",
   "snap", "snip", "snit", "snob", "snow", "snub", "snug", "soak", "soap",
   "soar", "sock", "soda", "soft", "soil", "sold", "sole", "solo", "some",
   "song", "soon", "soot", "sore", "sort", "soul", "soup", "sour", "span",
   "spar", "spec", "sped", "spin", "spit", "spot", "stem", "step", "stew",
   "stir", "stop", "stud", "stun", "such", "suit", "sulk", "sunk", "sure",
   "surf", "swab", "swag", "swam", "swan", "swap", "sway", "swim", "swum",
   "tail", "take", "tale", "talk", "tall", "tame", "tang", "tank", "tape",
   "tare", "tarn", "tarp", "tart", "task", "taut", "taxi", "team", "tear",
   "teas", "teat", "teen", "tell", "tend", "tent", "term", "tern", "text",
   "than", "that", "thaw", "thee", "them", "then", "they", "thin", "this",
   "thou", "thud", "thug", "tick", "tide", "tidy", "tied", "tier", "ties",
   "tile", "till", "tilt", "time", "tine", "tint", "tiny", "tire", "toad",
   "toes", "toil", "told", "toll", "tomb", "tone", "took", "tool", "toot",
   "tops", "tore", "torn", "toss", "tour", "tout", "town", "trap", "tray",
   "tree", "trek", "trim", "trio", "trip", "trod", "trot", "troy", "true",
   "tuba", "tube", "tuck", "tuft", "tuna", "tune", "turf", "turn", "tusk",
   "tutu", "twig", "twin", "twit", "type", "unit", "upon", "urge", "used",
   "vain", "vale", "vamp", "vane", "vape", "vary", "vase", "vast", "veal",
   "veil", "vein", "vend", "vent", "verb", "very", "vest", "veto", "vial",
   "vice", "view", "vile", "vine", "vinyl", "visa", "vise", "volt", "vote",
   "vow", "wade", "wage", "wail", "wait", "wake", "walk", "wall", "wand",
   "want", "ward", "ware", "warm", "warn", "warp", "wars", "wart", "wash",
   "wasp", "wave", "wavy", "waxy", "weak", "wear", "weary", "weed", "week",
   "weep", "weir", "weld", "well", "welt", "went", "were", "werf", "west",
   "wets", "whack", "whale", "what", "wheat", "wheel", "when", "where",
   "which", "while", "whim", "whine", "whip", "whirl", "whisk", "white",
   "who", "whole", "whom", "wick", "wide", "wife", "wild", "will", "wilt",
   "wind", "wine", "wing", "wink", "wins", "wipe", "wire", "wise", "wish",
   "wisp", "with", "woke", "wolf", "womb", "women", "won", "wont", "wood",
   "wool", "word", "wore", "work", "worn", "worth", "wrap", "wren", "writ",
   "yard", "yarn", "yawn", "yeah", "year", "yeast", "yell", "yelp", "yield",
   "yolk", "young", "your", "youth", "zeal", "zero", "zest", "zinc", "zone",
   "zoom"}

\* name-validator.js has no blacklist.
NoBlacklist == {}

\* The character class [aeiou]
Vowels == {"a", "e", "i", "o", "u"}

\* String.prototype.startsWith and endsWith
StartsWith(s, lit) == MatchAt(s, 1, lit)

EndsWith(s, lit) == MatchAt(s, Len(s) - Len(lit) + 1, lit)

\* getVowelRatio: the vowels over the vowels and consonants, as a fraction;
\* 0 when the string has no letter.
getVowelRatio(str) ==
  LET vowels == CountIn(str, Vowels)
      total == vowels + CountIn(str, Consonants)
  IN IF total = 0 THEN [num |-> 0, den |-> 1] ELSE [num |-> vowels, den |-> total]

\* ratio < p / 100 and ratio > p / 100, for the thresholds written 0.15,
\* 0.25 and so on.
Below(ratio, p) == 100 * ratio.num < p * ratio.den

Above(ratio, p) == 100 * ratio.num > p * ratio.den

\* hasRepeatedLetters: /(.)\1{2,}/i
hasRepeatedLetters(str) ==
  \E i \in 1..(Len(str) - 2) :
    /\ str[i] \notin LineTerminators
    /\ LowerChar(str[i + 1]) = LowerChar(str[i])
    /\ LowerChar(str[i + 2]) = LowerChar(str[i])

\* hasCommonNamePatterns. The pattern is built by two replacements, vowels
\* to v and then consonants to c; v is itself a consonant, so the second
\* replacement turns every letter into c.
hasCommonNamePatterns(str) ==
  LET lower == ToLowerCase(str)
      afterVowels == [i \in 1..Len(lower) |->
                        IF lower[i] \in Vowels THEN "v" ELSE lower[i]]
      pattern == [i \in 1..Len(lower) |->
                    IF afterVowels[i] \in Consonants THEN "c" ELSE afterVowels[i]]
  IN \/ \E prefix \in NAME_PREFIXES : StartsWith(lower, SubSeq(Str(prefix), 1, 3))
     \/ \E suffix \in NAME_SUFFIXES : EndsWith(lower, Str(suffix))
     \/ Includes(pattern, Str("cv"))
     \/ Includes(pattern, Str("vc"))

\* looksLikeHumanName; blacklist is BLACKLIST for the copy that has one.
\* The cluster tests are /[bcdfghjklmnpqrstvwxyz]{4,}/i and /[aeiou]{4,}/i.
looksLikeHumanName(str, blacklist) ==
  LET lower == ToLowerCase(str)
      vowelRatio == getVowelRatio(lower)
  IN /\ Len(str) >= 3
     /\ Text(lower) \notin blacklist
     /\ ~hasRepeatedLetters(lower)
     /\ ~HasRun(lower, Consonants, 4)
     /\ ~HasRun(lower, Vowels, 4)
     /\ ~Below(vowelRatio, 15)
     /\ ~Above(vowelRatio, 60)
     /\ (Includes(lower, <<" ">>) \/ Len(lower) >= 4)
     /\ \/ hasCommonNamePatterns(lower)
        \/ Len(lower) >= 4 /\ ~Below(vowelRatio, 25)

\* getNameConfidenceScore
getNameConfidenceScore(str) ==
  LET lower == ToLowerCase(str)
      vowelRatio == getVowelRatio(lower)
      score ==
        50
        + (IF Len(lower) < 4 THEN -20 ELSE IF Len(lower) >= 6 THEN 5 ELSE 0)
        + (IF ~Below(vowelRatio, 25) /\ ~Above(vowelRatio, 45) THEN 15
           ELSE IF ~Below(vowelRatio, 15) /\ ~Above(vowelRatio, 50) THEN 5
           ELSE -30)
        + (IF HasRun(lower, Consonants, 4) THEN -40 ELSE 0)
        + (IF HasRun(lower, Vowels, 4) THEN -40 ELSE 0)
        + (IF hasRepeatedLetters(lower) THEN -30 ELSE 0)
        + (IF hasCommonNamePatterns(lower) THEN 20 ELSE 0)
        + (IF Includes(lower, <<" ">>) THEN 10 ELSE 0)
  IN IF Len(str) < 3 THEN 0
     ELSE IF score < 0 THEN 0 ELSE IF score > 100 THEN 100 ELSE score

\* SemanticNameValidator.validateName: { valid, confidence, reason,
\* looksLikeName }. Only the verdict for a short name has a reason; the
\* issues, vowelRatio and length properties are read by no caller and are
\* not kept.
SemanticNameValidator_validateName(str, blacklist) ==
  IF Len(str) < 3
  THEN [valid |-> FALSE, confidence |-> 0,
        reason |-> "Name too short (minimum 3 characters)", looksLikeName |-> FALSE]
  ELSE [valid |-> looksLikeHumanName(str, blacklist)
                  \/ getNameConfidenceScore(str) >= 70,
        confidence |-> getNameConfidenceScore(str),
        reason |-> undefined,
        looksLikeName |-> looksLikeHumanName(str, blacklist)]

\* ------------------------------------------------------------------------
\* MLNameValidator
\* ------------------------------------------------------------------------

\* MLNameValidator: the beginnings analyzeNGrams counts as common.
COMMON_NAME_STARTS ==
  {"joh", "jam", "rob", "mic", "wil", "dav", "ric", "jos", "cha", "tho",
   "mar", "pat", "pau", "anth", "john", "james", "robe", "mich", "will",
   "davi", "rich", "jose", "char", "thom", "paul", "car", "carl", "juan",
   "jua", "fran", "fr", "jean", "piet", "anto", "serge", "ivan", "alek",
   "caro", "louis", "mig", "albe", "alla", "alex", "andre", "anna", "dani",
   "kath", "rosa", "sara", "jenn", "steph", "brend", "erin", "lisa",
   "kristen", "laur", "dor", "cind", "schm", "schwab", "schw", "schn", "sch",
   "hans", "klaus", "hein", "dieter", "gerh", "gott", "walter", "sven",
   "bjorn", "lars", "per", "ole", "nils", "ander", "erik"}

\* MLNameValidator: the endings analyzeNGrams counts as common.
COMMON_NAME_ENDS ==
  {"er", "ar", "or", "en", "an", "on", "ia", "na", "da", "la", "ra", "ey",
   "ie", "el", "al", "il", "ol", "ul", "in", "un", "son", "sen", "ten",
   "ley", "ily", "amy", "ara", "beth", "abeth", "belle", "bel", "bell",
   "ian", "iana", "ain", "aine", "ov", "ova", "ev", "eva", "sky", "ski",
   "ska", "enko", "vich", "sek", "zek", "czyk", "wicz", "ak", "uk", "ER",
   "IC", "O", "A", "E", "H", "T", "D", "N", "S", "X", "Z"}

\* Mutant of MLNameValidator.levenshteinDistance: the indicator is 1 for
\* equal characters too.
MLNameValidator_levenshteinDistanceNoIndicator(str1, str2) ==
  LET RECURSIVE Row(_, _, _)
      Row(above, j, row) ==
        IF Len(row) = Len(str1) + 1 THEN row
        ELSE LET i == Len(row)
                 cell == Min2(row[i] + 1, Min2(above[i + 1] + 1, above[i] + 1))
             IN Row(above, j, Append(row, cell))
      RECURSIVE Rows(_, _)
      Rows(j, above) ==
        IF j > Len(str2) THEN above ELSE Rows(j + 1, Row(above, j, <<j>>))
  IN Rows(1, [i \in 1..(Len(str1) + 1) |-> i - 1])[Len(str1) + 1]

\* MLNameValidator.levenshteinDistance: track[j] is filled row by row from
\* track[j - 1], a row for each character of str2; every cell is the least
\* of the cell to its left plus 1, the cell above it plus 1 and the cell
\* above to the left plus the indicator.
MLNameValidator_levenshteinDistance(str1, str2) ==
  LET RECURSIVE Row(_, _, _)
      Row(above, j, row) ==
        IF Len(row) = Len(str1) + 1 THEN row
        ELSE LET i == Len(row)
                 indicator == IF str1[i] = str2[j] THEN 0 ELSE 1
                 cell == Min2(row[i] + 1,
                              Min2(above[i + 1] + 1, above[i] + indicator))
             IN Row(above, j, Append(row, cell))
      RECURSIVE Rows(_, _)
      Rows(j, above) ==
        IF j > Len(str2) THEN above ELSE Rows(j + 1, Row(above, j, <<j>>))
  IN Rows(1, [i \in 1..(Len(str1) + 1) |-> i - 1])[Len(str1) + 1]

\* The quotient num / den of a division, kept exact as a fraction in lowest
\* terms.
Fraction(num, den) ==
  LET RECURSIVE Gcd(_, _)
      Gcd(a, b) == IF b = 0 THEN a ELSE Gcd(b, a % b)
  IN [num |-> num \div Gcd(num, den), den |-> den \div Gcd(num, den)]

\* MLNameValidator.calculateSimilarity: 1 - distance / maxLength, as a
\* fraction.
calculateSimilarity(str1, str2) ==
  LET distance == MLNameValidator_levenshteinDistance(ToLowerCase(str1),
                                                      ToLowerCase(str2))
      maxLength == IF Len(str1) >= Len(str2) THEN Len(str1) ELSE Len(str2)
  IN Fraction(maxLength - distance, maxLength)

\* The first loop of jaroWinklerSimilarity from index i (0-based) on: the
\* greedy matching of the characters of s1 with those of s2.  twice is
\* 2 * matchDistance; matchDistance is Math.max(len1, len2) / 2 - 1 and is
\* not rounded, so for an odd longer length the inner loop starts at a
\* fractional j as soon as i exceeds matchDistance, s2[j] is undefined there
\* and on every later j, and the character finds no match.
RECURSIVE JaroMatches(_, _, _, _, _)
JaroMatches(s1, s2, twice, i, found) ==
  IF i >= Len(s1) THEN found
  ELSE LET start2 == IF 2 * i - twice > 0 THEN 2 * i - twice ELSE 0
           end2 == IF 2 * i + twice + 2 < 2 * Len(s2)
                   THEN 2 * i + twice + 2 ELSE 2 * Len(s2)
           free == {j \in 0..(Len(s2) - 1) :
                      /\ start2 % 2 = 0
                      /\ 2 * j >= start2
                      /\ 2 * j < end2
                      /\ j \notin found.matchedChars
                      /\ s1[i + 1] = s2[j + 1]}
           first == CHOOSE j \in free : \A m \in free : j <= m
           next == IF free = {} THEN found
                   ELSE [matches |-> found.matches \cup {i},
                         matchedChars |-> found.matchedChars \cup {first}]
       IN JaroMatches(s1, s2, twice, i + 1, next)

\* MLNameValidator.jaroWinklerSimilarity, as a fraction.  With m matches
\* and t transpositions jaro is (m/len1 + m/len2 + (m - t/2)/m) / 3 and the
\* result jaro + prefixLength * 0.1 * (1 - jaro).
jaroWinklerSimilarity(str1, str2) ==
  LET \* the k-th smallest index of a set of indices, k from 1
      Ascending(set) ==
        [k \in 1..Cardinality(set) |->
           CHOOSE x \in set : Cardinality({y \in set : y < x}) = k - 1]
      s1 == ToLowerCase(str1)
      s2 == ToLowerCase(str2)
      len1 == Len(s1)
      len2 == Len(s2)
      longer == IF len1 >= len2 THEN len1 ELSE len2
      found == JaroMatches(s1, s2, longer - 2, 0,
                           [matches |-> {}, matchedChars |-> {}])
      matchCount == Cardinality(found.matches)
      in1 == Ascending(found.matches)
      in2 == Ascending(found.matchedChars)
      transpositions ==
        Cardinality({k \in 1..matchCount : s1[in1[k] + 1] # s2[in2[k] + 1]})
      jaroNum == 2 * matchCount * matchCount * (len1 + len2)
                 + (2 * matchCount - transpositions) * len1 * len2
      jaroDen == 6 * matchCount * len1 * len2
      shorter == IF len1 <= len2 THEN len1 ELSE len2
      upTo == IF shorter < 4 THEN shorter ELSE 4
      prefixLength ==
        Cardinality({n \in 1..upTo : \A k \in 1..n : s1[k] = s2[k]})
  IN IF len1 = 0 /\ len2 = 0 THEN [num |-> 1, den |-> 1]
     ELSE IF len1 = 0 \/ len2 = 0 \/ matchCount = 0 THEN [num |-> 0, den |-> 1]
     ELSE Fraction(10 * jaroNum + prefixLength * (jaroDen - jaroNum),
                   10 * jaroDen)

\* MLNameValidator.analyzeNGrams: { hasCommonStart, hasCommonEnd }
analyzeNGrams(str) ==
  LET lower == ToLowerCase(str)
  IN [hasCommonStart |-> \E start \in COMMON_NAME_STARTS : StartsWith(lower, Str(start)),
      hasCommonEnd |-> \E end \in COMMON_NAME_ENDS : EndsWith(lower, Str(end))]

\* The length of the longest run of characters of set in s, 0 when no run
\* has two characters.
MaxCluster(s, set) ==
  LET runs == {n \in 2..Len(s) : HasRun(s, set, n)}
  IN IF runs = {} THEN 0 ELSE CHOOSE n \in runs : \A m \in runs : m <= n

\* MLNameValidator.analyzePhonetics: { vowelRatio, isPhoneticValid }.  The
\* class of the vowel count is [aeiouya], which has the y the consonant
\* class has too.
analyzePhonetics(str) ==
  LET lower == ToLowerCase(str)
      vowels == CountIn(lower, Vowels \cup {"y"})
      consonants == CountIn(lower, Consonants)
      total == vowels + consonants
      vowelRatio == IF total > 0 THEN [num |-> vowels, den |-> total]
                    ELSE [num |-> 0, den |-> 1]
  IN [vowelRatio |-> vowelRatio,
      isPhoneticValid |-> /\ ~Below(vowelRatio, 15)
                          /\ ~Above(vowelRatio, 65)
                          /\ MaxCluster(lower, Consonants) <= 4
                          /\ MaxCluster(lower, Vowels) <= 3]

\* MLNameValidator.isObviouslyNotAName
isObviouslyNotAName(str) ==
  LET lower == ToLowerCase(str)
      nonNames ==
      {"test", "admin", "user", "demo", "example", "sample", "werf", "nerd",
       "geek", "dork", "loser", "idiot", "password", "username", "email",
       "phone", "address", "firstname", "lastname", "middlename", "fullname",
       "null", "undefined", "none", "noname", "unknown", "aaa", "bbb", "ccc",
       "ddd", "eee", "fff", "ggg", "hhh", "iii", "jjj", "kkk", "lll", "mmm",
       "nnn", "ooo", "ppp", "qqq", "rrr", "sss", "ttt", "uuu", "vvv", "www",
       "xxx", "yyy", "zzz"}
  IN \/ hasRepeatedLetters(lower)
     \/ CountIn(lower, Vowels) = 0
     \/ CountIn(lower, Consonants) = 0
     \/ Text(lower) \in nonNames

\* MLNameValidator.findBestMatches: the database names of 3 and more
\* characters with a jaroWinkler value of 0.7 or more, the highest compound
\* score first, names of equal score in the order of the database, at most
\* limit of them.  The compound score is
\* similarity * 0.4 + jaroWinkler * 0.6 - lenDiff * 0.02, kept as the
\* fraction score.num / score.den.
findBestMatches(inputName, databaseNames, limit) ==
  LET match(dbName, similarity, jaroWinkler, lenDiff) ==
        [name |-> dbName,
         jaroWinkler |-> jaroWinkler,
         score |-> [num |-> 40 * similarity.num * jaroWinkler.den
                            + 60 * jaroWinkler.num * similarity.den
                            - 2 * lenDiff * similarity.den * jaroWinkler.den,
                    den |-> 100 * similarity.den * jaroWinkler.den]]
      abs(n) == IF n >= 0 THEN n ELSE 0 - n
      scored == [k \in 1..Len(databaseNames) |->
                   match(databaseNames[k],
                         calculateSimilarity(inputName, databaseNames[k]),
                         jaroWinklerSimilarity(inputName, databaseNames[k]),
                         abs(Len(inputName) - Len(databaseNames[k])))]
      \* a / b > c / d for positive b and d, by whole parts and then by the
      \* reciprocals of the remainders
      RECURSIVE Greater(_, _, _, _)
      Greater(a, b, c, d) ==
        IF a \div b # c \div d THEN a \div b > c \div d
        ELSE IF a % b = 0 THEN FALSE
        ELSE IF c % d = 0 THEN TRUE
        ELSE Greater(d, c % d, b, a % b)
      sorted(list) ==
        LET candidates == {k \in 1..Len(list) :
                             Len(list[k].name) >= 3 /\ ~Below(list[k].jaroWinkler, 70)}
            before(m, k, sm, sk) ==
              \/ Greater(sm.num, sm.den, sk.num, sk.den)
              \/ ~Greater(sk.num, sk.den, sm.num, sm.den) /\ m < k
            rank == [k \in candidates |->
                       Cardinality({m \in candidates :
                                      before(m, k, list[m].score, list[k].score)}) + 1]
        IN [r \in 1..(IF Cardinality(candidates) < limit
                      THEN Cardinality(candidates) ELSE limit) |->
              LET k == CHOOSE c \in candidates : rank[c] = r
              IN [name |-> list[k].name, jaroWinkler |-> list[k].jaroWinkler]]
  IN sorted(scored)

\* MLNameValidator.calculateConfidenceScore
calculateConfidenceScoreLongBonus(inputName, dbMatches) ==
  LET phonetics == analyzePhonetics(inputName)
      ngrams == analyzeNGrams(inputName)
      len == Len(inputName)
      score ==
        (IF ~phonetics.isPhoneticValid THEN 0
         ELSE IF ~Below(phonetics.vowelRatio, 25) /\ ~Above(phonetics.vowelRatio, 45)
           THEN 25
         ELSE IF ~Below(phonetics.vowelRatio, 20) /\ ~Above(phonetics.vowelRatio, 50)
           THEN 20
         ELSE 15)
        + (IF ngrams.hasCommonStart THEN 10 ELSE 0)
        + (IF ngrams.hasCommonEnd THEN 10 ELSE 0)
        + (IF len >= 4 /\ len <= 20 THEN 30 ELSE IF len = 3 THEN 10 ELSE 0)
        + (IF dbMatches = <<>> THEN 0
           ELSE IF ~Below(dbMatches[1].jaroWinkler, 95) THEN 40
           ELSE IF ~Below(dbMatches[1].jaroWinkler, 85) THEN 30
           ELSE IF ~Below(dbMatches[1].jaroWinkler, 75) THEN 20
           ELSE IF ~Below(dbMatches[1].jaroWinkler, 70) THEN 10
           ELSE 0)
  IN IF score > 100 THEN 100 ELSE score

calculateConfidenceScore(inputName, dbMatches) ==
  LET phonetics == analyzePhonetics(inputName)
      ngrams == analyzeNGrams(inputName)
      len == Len(inputName)
      score ==
        (IF ~phonetics.isPhoneticValid THEN 0
         ELSE IF ~Below(phonetics.vowelRatio, 25) /\ ~Above(phonetics.vowelRatio, 45)
           THEN 25
         ELSE IF ~Below(phonetics.vowelRatio, 20) /\ ~Above(phonetics.vowelRatio, 50)
           THEN 20
         ELSE 15)
        + (IF ngrams.hasCommonStart THEN 10 ELSE 0)
        + (IF ngrams.hasCommonEnd THEN 10 ELSE 0)
        + (IF len >= 4 /\ len <= 20 THEN 15 ELSE IF len = 3 THEN 10 ELSE 0)
        + (IF dbMatches = <<>> THEN 0
           ELSE IF ~Below(dbMatches[1].jaroWinkler, 95) THEN 40
           ELSE IF ~Below(dbMatches[1].jaroWinkler, 85) THEN 30
           ELSE IF ~Below(dbMatches[1].jaroWinkler, 75) THEN 20
           ELSE IF ~Below(dbMatches[1].jaroWinkler, 70) THEN 10
           ELSE 0)
  IN IF score > 100 THEN 100 ELSE score

\* MLNameValidator.validateName: { valid, confidence, reason, suggestions }
MLNameValidator_validateName(inputName, databaseNames) ==
  LET verdict(valid, confidence, reason, dbMatches) ==
        [valid |-> valid, confidence |-> confidence, reason |-> reason,
         suggestions |-> [r \in 1..(IF Len(dbMatches) < 3 THEN Len(dbMatches) ELSE 3) |->
                            dbMatches[r].name]]
      decide(dbMatches, isPhoneticValid, confidence) ==
        IF dbMatches # <<>> /\ ~Below(dbMatches[1].jaroWinkler, 95)
          THEN verdict(TRUE, confidence, "Exact match in database", dbMatches)
        ELSE IF confidence >= 75 /\ isPhoneticValid
          THEN verdict(TRUE, confidence, "Phonetically valid name pattern", dbMatches)
        ELSE IF confidence >= 85
          THEN verdict(TRUE, confidence, "Strong name characteristics", dbMatches)
        ELSE IF ~isPhoneticValid
          THEN verdict(FALSE, confidence, "Does not match natural name phonetics",
                       dbMatches)
        ELSE verdict(FALSE, confidence,
                     "Insufficient confidence that this is a real name", dbMatches)
      scored(dbMatches) ==
        decide(dbMatches, analyzePhonetics(inputName).isPhoneticValid,
               calculateConfidenceScore(inputName, dbMatches))
  IN IF Len(inputName) < 3
       THEN [valid |-> FALSE, confidence |-> 0, reason |-> "Name too short",
             suggestions |-> <<>>]
     ELSE IF isObviouslyNotAName(inputName)
       THEN [valid |-> FALSE, confidence |-> 0,
             reason |-> "This is a common word or non-name, not a real human name",
             suggestions |-> <<>>]
     ELSE scored(findBestMatches(inputName, databaseNames, 5))

\* ------------------------------------------------------------------------
\* MessageAnalyzer: quality score and suggestions; FormHandler: the
\* listeners of the input and blur events
\* ------------------------------------------------------------------------

\* /u r |ur |ur |yr |yur |4 |2day |2nite |c u |thru |plz |pls /i
TextSpeak(text) ==
  \E w \in {"u r ", "ur ", "yr ", "yur ", "4 ", "2day ", "2nite ", "c u ",
            "thru ", "plz ", "pls "} : IncludesCI(text, Str(w))

\* MessageAnalyzer.calculateQuality
calculateQuality(text) ==
  LET words == SplitRuns(Trim(text), WhiteSpace)
      sentences == SelectSeq(SplitRuns(text, {".", "!", "?"}),
                             LAMBDA s : Len(Trim(s)) > 0)
      uniqueWords == {ToLowerCase(words[i]) : i \in 1..Len(words)}
      caps == Cardinality({i \in 1..Len(text) : text[i] \in UpperLetters})
      score ==
        50
        + (IF Len(words) < 5 THEN -20 ELSE IF Len(words) < 10 THEN -10
           ELSE IF Len(words) > 50 THEN 10 ELSE 0)
        + (IF Len(sentences) < 2 THEN -10 ELSE IF Len(sentences) >= 3 THEN 10 ELSE 0)
        + (IF At(text, Len(text)) \in {".", "!", "?"} THEN 5 ELSE 0)
        + (IF Includes(text, <<",">>) THEN 5 ELSE 0)
        + (IF 10 * Cardinality(uniqueWords) > 6 * Len(words) THEN 10 ELSE 0)
        + (IF 10 * Cardinality(uniqueWords) < 4 * Len(words) THEN -10 ELSE 0)
        + (IF TextSpeak(text) THEN -15 ELSE 0)
        + (IF 2 * caps > Len(words) THEN -15 ELSE 0)
        + (IF isSpam(text) THEN -30 ELSE 0)
        + (IF isGibberish(text) THEN -30 ELSE 0)
        + (IF isRepetitive(text) THEN -25 ELSE 0)
  IN IF score < 0 THEN 0 ELSE IF score > 100 THEN 100 ELSE score

\* MessageAnalyzer.getSuggestions
getSuggestions(text) ==
  LET sentences == SelectSeq(SplitRuns(text, {".", "!", "?"}),
                             LAMBDA s : Len(Trim(s)) > 0)
      caps == Cardinality({i \in 1..Len(text) : text[i] \in UpperLetters})
      add(cond, msg) == IF cond THEN <<msg>> ELSE <<>>
  IN add(Len(text) < 50, "Add more detail to your message")
     \o add(At(text, Len(text)) \notin {".", "!", "?"},
            "End your message with proper punctuation")
     \o add(Len(sentences) = 1, "Consider adding multiple sentences for clarity")
     \o add(TextSpeak(text), "Use proper spelling instead of text speak")
     \o add(2 * caps > Len(SplitRuns(text, WhiteSpace)),
            "Use proper capitalization (avoid excessive caps)")

\* The lines the listeners write for a list: a bullet, the item and a line
\* feed each. The bullet of the source is U+2022 and is written * here.
RECURSIVE Bullets(_)
Bullets(items) ==
  IF items = <<>> THEN "" ELSE "* " \o items[1] \o "\n" \o Bullets(Tail(items))

\* The #name-error element after the validateName listener ran on value,
\* on a page that loaded the optional scripts in scripts. MLNameValidator
\* is part of main.js; with NamesDatabase loaded the listener calls
\* NamesDatabase.getFirstNames, which names-database.js does not export, and
\* ends there with a TypeError.
validateName(value, scripts, errorDiv) ==
  LET name == Trim(value)
      semantic == "SemanticNameValidator" \in scripts
      validationResult == SemanticNameValidator_validateName(name, NoBlacklist)
      message == IF ~semantic THEN "This doesn't appear to be a real human name."
                 ELSE IF validationResult.reason # undefined THEN validationResult.reason
                 ELSE ""
  IN IF name = <<>> THEN [errorDiv EXCEPT !.display = "none"]
     ELSE IF Len(name) < 3
       THEN [textContent |-> "Name must be at least 3 characters long (e.g., \"Dan\", \"Sam\", \"John\").",
             display |-> "block"]
     ELSE IF ~nameRegex(name)
       THEN [textContent |-> "Please enter your name in English only (A-Z). Spaces, hyphens, and apostrophes are allowed (e.g., \"John Smith\", \"Mary-Jane\", \"O'Brien\").",
             display |-> "block"]
     ELSE IF "NamesDatabase" \in scripts THEN errorDiv
     ELSE IF ~(semantic /\ validationResult.valid)
       THEN [textContent |-> message, display |-> "block"]
     ELSE [errorDiv EXCEPT !.display = "none"]

\* The #email-error element after the validateEmail listener ran on value.
validateEmail(value, errorDiv) ==
  IF value # <<>> /\ ~validateEmailLocal(value).valid
  THEN [textContent |-> validateEmailLocal(value).error, display |-> "block"]
  ELSE [errorDiv EXCEPT !.display = "none"]

\* The #message-error element after the validateMessage listener ran on
\* value: the issues and suggestions of an invalid message, nothing for a
\* quality of 70 or more, the feedback for one from 50 to 69, and no change
\* for a valid message of a lower quality.
validateMessageListener(value, errorDiv) ==
  LET message == Trim(value)
      validation == validateMessage(message)
      quality == calculateQuality(message)
      suggestions == getSuggestions(message)
      block == IF suggestions = <<>> THEN ""
               ELSE "\nSuggestions:\n" \o Bullets(suggestions)
  IN IF message = <<>> THEN [errorDiv EXCEPT !.display = "none"]
     ELSE IF ~validation.valid
       THEN [textContent |-> "Message validation failed:\n"
                             \o Bullets(validation.issues) \o block,
             display |-> "block"]
     ELSE IF quality >= 70 THEN [errorDiv EXCEPT !.display = "none"]
     ELSE IF quality >= 50
       THEN [textContent |-> "Message quality: " \o ToString(quality)
                             \o "/100. Message could be more detailed"
                             \o " Consider adding more information"
                             \o (IF suggestions = <<>> THEN ""
                                 ELSE "\n" \o block),
             display |-> "block"]
     ELSE errorDiv

\* ---------------------------------------------------------------------------
\* TypingAnimation (main.js): the hero line that types and deletes the roles
\* ---------------------------------------------------------------------------

roles == <<Str("Fraud Analyst"), Str("Online Investigator"),
           Str("Problem Solver"), Str("Threat Detection Specialist"),
           Str("OSINT/WEBINT Researcher")>>

config == [speed |-> 100, deleteSpeed |-> 50, pauseTime |-> 2000,
           delay |-> 1000]

\* String.prototype.substring(0, end): an end below 0 counts as 0, an end
\* beyond the string as its length.
substring0(s, end) ==
  SubSeq(s, 1, IF end < 0 THEN 0 ELSE IF end > Len(s) THEN Len(s) ELSE end)

\* handleTyping and handleDeletion: the state object after the call and the
\* delay of the one setTimeout(startAnimation, ...) the call makes.
handleTyping(st, currentRole) ==
  LET typed == [st EXCEPT !.charIndex = @ + 1]
  IN  IF typed.charIndex > Len(currentRole)
        THEN [state |-> [typed EXCEPT !.isDeleting = TRUE],
              timeout |-> <<config.pauseTime>>]
        ELSE [state |-> typed, timeout |-> <<config.speed>>]

handleDeletionSkipsRole(st, currentRole) ==
  LET deleted == [st EXCEPT !.charIndex = @ - 1]
  IN  IF deleted.charIndex < 0
        THEN [state |-> [deleted EXCEPT !.isDeleting = FALSE,
                                        !.roleIndex = (@ + 2) % Len(roles)],
              timeout |-> <<500>>]
        ELSE [state |-> deleted, timeout |-> <<config.deleteSpeed>>]

handleDeletion(st, currentRole) ==
  LET deleted == [st EXCEPT !.charIndex = @ - 1]
  IN  IF deleted.charIndex < 0
        THEN [state |-> [deleted EXCEPT !.isDeleting = FALSE,
                                        !.roleIndex = (@ + 1) % Len(roles)],
              timeout |-> <<500>>]
        ELSE [state |-> deleted, timeout |-> <<config.deleteSpeed>>]

\* ------------------------------------------------------------------------
\* State
\* ------------------------------------------------------------------------

VARIABLES
  argFieldName,  \* validateInputSecurity's first argument
  argInput,      \* the JavaScript value handed to the detectors
  verdict,       \* what validateInputSecurity returned for (fieldName, input)
  ldapFlag,      \* what detectLDAPInjection returned for input
  now,           \* Date.now(), in milliseconds
  localStorage,  \* window.localStorage: key -> stored text
  rateResult,    \* the last checkRateLimit call: who called and the result
  admitted,      \* history: when and for whom checkRateLimit last returned
                 \* true, oldest first, the last MaxSubmissions + 1 of them
  app,           \* "loading" until FormHandler.init has run, then "ready"
  fields,        \* the value of #name, #email, #message and #website
  sessionStorage,\* window.sessionStorage: key -> stored text
  csrfField,     \* the value of the #csrf_token field
  generated,     \* history: the number of generateCSRFToken calls
  submitBtn,     \* textContent and disabled of the .form-submit button
  errors,        \* per field: textContent and display of its error element
                 \* (hidden until a handler shows it); classes and colours
                 \* are not kept
  inFlight,      \* the fetch requests not yet settled: the body posted and
                 \* the originalText captured by the handler that posted it
  toasts,        \* success notices waiting for the 4000 ms timer (shown) and
                 \* for the 300 ms timer (fading)
  submitReturn,  \* history: the return site of the last handleFormSubmit
  loaded,        \* the optional scripts the page has loaded besides main.js
  animation,     \* "off" until TypingAnimation.init has run, then "on"
  state,         \* TypingAnimation's state: roleIndex, charIndex, isDeleting
  roleText,      \* the #role-text element: whether the page has it, and its
                 \* textContent
  timers,        \* the delays of the pending setTimeout(startAnimation, ...)
  valInput,      \* the arguments of the validator call under study
  valOut         \* which validator was called and what it returned

secVars == <<argFieldName, argInput, verdict, ldapFlag>>

rateVars == <<now, localStorage, rateResult, admitted>>

typingVars == <<animation, state, roleText, timers>>

formVars == <<app, fields, sessionStorage, csrfField, generated, submitBtn,
              errors, inFlight, toasts, submitReturn, loaded, typingVars>>

valVars == <<valInput, valOut>>

vars == <<secVars, rateVars, formVars, valVars>>

\* No call made yet.
NoResult == [called |-> FALSE]

\* ------------------------------------------------------------------------
\* Bounds and inputs of the detector calls
\* ------------------------------------------------------------------------

\* Longest enumerated input.
MaxInputLen == 3

\* The characters of the enumerated inputs: a letter, the statement
\* separator and the six LDAP filter characters.
SecAlphabet == {"a", ";", "&", "*", "(", ")", "\\", "|"}

\* All strings over alphabet of length at most n.
StringsUpTo(alphabet, n) == UNION {[1..k -> alphabet] : k \in 0..n}

\* n times the character c.
Repeat(c, n) == [i \in 1..n |-> c]

\* Payloads named by the documentation and one input per detector.
SecExamples ==
  {Str("<script>alert(1)</script>"),
   Str("Check this <script>alert('Hacked!')</script>"),
   Str("Robert'); DROP TABLE users;--"),
   Str("I need an API; help!"),
   Str("I need; a quote for your services"),
   Str("Tom & Jerry"),
   Str("hello world"),
   Str("<iframe>"),
   Str("<iframe src=x>../"),
   Str("<img src=x onerror='go'>"),
   Str("data:text/html,hi"),
   Str("$ne"),
   Str("a::b"),
   <<"BQ", "BQ">>,
   <<".", ".", "/", "BQ", "BQ">>,
   Str("$gt../"),
   Str("../secret"),
   Str("etc/passwd"),
   Repeat("a", 100), Repeat("a", 101), Repeat(";", 101),
   Repeat("a", 255), Repeat("a", 256), Repeat("<", 256),
   Repeat(";", 5000), Repeat(";", 5001)}

SecInputs ==
  {JsString(s) : s \in StringsUpTo(SecAlphabet, MaxInputLen) \cup SecExamples}
  \cup {JsNumber, JsUndefined}

FieldNames == {"name", "email", "message", "phone"}

\* ------------------------------------------------------------------------
\* Detector calls: validateInputSecurity(fieldName, input) and
\* detectLDAPInjection(input) on an input drawn at the start
\* ------------------------------------------------------------------------

\* The detector harness before any call.
SecIdle ==
  /\ argFieldName = "name"
  /\ argInput = JsString(<<>>)
  /\ verdict = NoResult
  /\ ldapFlag = NoResult

\* The clock at its origin and an empty localStorage.
RateIdle ==
  /\ now = 0
  /\ localStorage = [k \in {} |-> <<>>]
  /\ rateResult = NoResult
  /\ admitted = <<>>

\* The page before FormHandler.init: empty fields, no token, no error shown.
PageIdle ==
  /\ app = "loading"
  /\ fields = [name |-> <<>>, email |-> <<>>, message |-> <<>>, website |-> <<>>]
  /\ sessionStorage = [k \in {} |-> ""]
  /\ csrfField = ""
  /\ generated = 0
  /\ submitBtn = [textContent |-> "Send Message", disabled |-> FALSE]
  /\ errors = [f \in {"name", "email", "message"} |->
                 [textContent |-> "", display |-> "none"]]
  /\ inFlight = <<>>
  /\ toasts = [shown |-> 0, fading |-> 0]
  /\ submitReturn = "none"

\* TypingAnimation before its init: the module's initial state object, no
\* timer pending.
TypingOff ==
  /\ animation = "off"
  /\ state = [roleIndex |-> 0, charIndex |-> 0, isDeleting |-> FALSE]
  /\ timers = <<>>

\* The typing animation never started, on a page that has the element.
TypingIdle ==
  /\ TypingOff
  /\ roleText = [present |-> TRUE, textContent |-> <<>>]

\* That page with none of the optional scripts loaded.
FormIdle ==
  /\ PageIdle
  /\ TypingIdle
  /\ loaded = {}

\* The validator harness before any call.
ValIdle ==
  /\ valInput = <<>>
  /\ valOut = NoResult

SecInit ==
  /\ argFieldName \in FieldNames
  /\ argInput \in SecInputs
  /\ verdict = NoResult
  /\ ldapFlag = NoResult
  /\ RateIdle
  /\ FormIdle
  /\ ValIdle

ValidateInputSecurityCall ==
  /\ ~verdict.called
  /\ verdict' = [called |-> TRUE, result |-> validateInputSecurity(argFieldName, argInput)]
  /\ UNCHANGED <<argFieldName, argInput, ldapFlag, rateVars, formVars, valVars>>

DetectLDAPInjectionCall ==
  /\ ~ldapFlag.called
  /\ ldapFlag' = [called |-> TRUE, result |-> detectLDAPInjection(argInput)]
  /\ UNCHANGED <<argFieldName, argInput, verdict, rateVars, formVars, valVars>>

SecNext ==
  \/ ValidateInputSecurityCall
  \/ DetectLDAPInjectionCall

SpecSec == SecInit /\ [][SecNext]_vars

\* ------------------------------------------------------------------------
\* Rate limiter: the callers of checkRateLimit and the clock
\* ------------------------------------------------------------------------

\* The clock stops here.
MaxNow == 120000

\* The event sources that call checkRateLimit on the shared log.
Callers == {1, 2}

\* How far the clock moves between two events: a third of the window, and
\* one millisecond less than the window.
TimeSteps == {20000, 59999}

\* The last n entries of a history.
LastOf(h, n) == IF Len(h) <= n THEN h ELSE SubSeq(h, Len(h) - n + 1, Len(h))

RateInit ==
  /\ RateIdle
  /\ SecIdle
  /\ FormIdle
  /\ ValIdle

\* Time passes between two events.
Tick(d) ==
  /\ now + d <= MaxNow
  /\ now' = now + d
  /\ UNCHANGED <<localStorage, rateResult, admitted, secVars, formVars, valVars>>

\* One call of SecurityHelper.checkRateLimit by caller c, run to completion.
checkRateLimit(c) ==
  /\ localStorage' = RateLimitStorage(localStorage, now)
  /\ rateResult' = [called |-> TRUE, by |-> c,
                    result |-> RateLimitAdmits(localStorage, now)]
  /\ admitted' = IF RateLimitAdmits(localStorage, now)
                 THEN LastOf(Append(admitted, [at |-> now, by |-> c]), MaxSubmissions + 1)
                 ELSE admitted
  /\ UNCHANGED <<now, secVars, formVars, valVars>>

RateNext ==
  \/ \E d \in TimeSteps : Tick(d)
  \/ \E c \in Callers : checkRateLimit(c)

SpecRate == RateInit /\ [][RateNext]_vars

\* ------------------------------------------------------------------------
\* Contact form: FormHandler.init, the submit event, the settling of fetch
\* and the timers of showSuccessMessage
\* ------------------------------------------------------------------------

\* The most fetch requests in flight and success notices on the page at
\* one time. The clock is held in this specification: the window of the
\* rate limiter is the subject of SpecRate.
MaxPending == 1

\* What a visitor types into the visible fields: nothing, a value its
\* listener reports and a value the handlers accept.
TypedValues ==
  [name |-> {<<>>, Str("Jo"), Str("John")},
   email |-> {<<>>, Str("anna@gmial.com"), Str("anna@mail.com")},
   message |-> {<<>>, Str("hello"), Str("Hi. Can we talk now?")}]

\* Values of the fields: nothing, a value inside markup that passes every
\* check once stripped, a value the injection detector rejects and the
\* typed values; for the honeypot nothing, a blank and a link.
FieldValues ==
  [name |-> {<<>>, Str(" <b>John</b> "), Str("<iframe>John")} \cup TypedValues.name,
   email |-> {<<>>, Str("<b>anna@mail.com</b>"), Str("john|smith@gmail.com")}
             \cup TypedValues.email,
   message |-> {<<>>, Str("<p>Hi. Can we talk now?</p>"),
                Str("<script>alert(1)</script>")} \cup TypedValues.message,
   website |-> {<<>>, Str(" "), Str("http://spam.example")}]

\* The form with every field filled in well and the honeypot left alone.
GoodFill ==
  [name |-> Str(" <b>John</b> "), email |-> Str("<b>anna@mail.com</b>"),
   message |-> Str("<p>Hi. Can we talk now?</p>"), website |-> <<>>]

\* The ways the form is filled in: well, with one field left empty, with
\* an attack in one field, with the honeypot blank or filled, and with
\* attacks in every field and the honeypot filled.
FormFills ==
  {GoodFill}
  \cup {[GoodFill EXCEPT ![f] = <<>>] : f \in {"name", "email", "message"}}
  \cup {[GoodFill EXCEPT !.name = Str("<iframe>John")],
        [GoodFill EXCEPT !.email = Str("john|smith@gmail.com")],
        [GoodFill EXCEPT !.message = Str("<script>alert(1)</script>")],
        [GoodFill EXCEPT !.website = Str(" ")],
        [GoodFill EXCEPT !.website = Str("http://spam.example")],
        [name |-> Str("<iframe>John"), email |-> Str("john|smith@gmail.com"),
         message |-> Str("<script>alert(1)</script>"),
         website |-> Str("http://spam.example")]}

\* handleFormSubmitReturn, formData and updateButtonState on the field
\* values above, computed once.
SubmitReturns ==
  [w \in FieldValues.website, a \in BOOLEAN, n \in FieldValues.name,
   e \in FieldValues.email, m \in FieldValues.message |->
     handleFormSubmitReturn(w, a, n, e, m)]

FormBodies ==
  [n \in FieldValues.name, e \in FieldValues.email, m \in FieldValues.message,
   t \in RandomTokens |-> formData(n, e, m, t)]

ButtonStates ==
  [n \in FieldValues.name, e \in FieldValues.email, m \in FieldValues.message |->
     updateButtonState(n, e, m)]

Threats ==
  [f \in {"name", "email", "message"} |->
     [v \in FieldValues[f] |-> validateInputSecurity(f, JsString(v)).threat]]

\* A page load in a fresh session.
FormInit ==
  /\ SecIdle
  /\ RateIdle
  /\ FormIdle
  /\ ValIdle

\* FormHandler.init: the token goes into the #csrf_token field, the
\* listeners are attached and setupFormValidation sets the button.
FormHandlerInit ==
  /\ app = "loading"
  /\ \E fresh \in RandomTokens :
       LET got == getCSRFToken(sessionStorage, fresh)
       IN /\ csrfField' = got.token
          /\ sessionStorage' = got.storage
          /\ generated' = generated + got.generated
  /\ submitBtn' = [submitBtn EXCEPT
                     !.disabled = ButtonStates[fields.name, fields.email, fields.message]]
  /\ app' = "ready"
  /\ UNCHANGED <<fields, errors, inFlight, toasts, submitReturn, secVars, rateVars, loaded, typingVars,
                 valVars>>

\* The fields are filled in; the listeners of their input events are not
\* part of this step.
FillForm(fill) ==
  /\ app = "ready"
  /\ fields # fill
  /\ fields' = fill
  /\ UNCHANGED <<app, sessionStorage, csrfField, generated, submitBtn, errors,
                 inFlight, toasts, submitReturn, secVars, rateVars, loaded, typingVars,
                 valVars>>

\* The error elements after handleFormSubmit shows the one of field f with
\* the given text.
\* The form-input-error class the handler also puts on the input is styling
\* only and is not part of the state here.
ShowError(f, text) ==
  [errors EXCEPT ![f] = [textContent |-> text, display |-> "block"]]

\* A submit event: handleFormSubmit up to its return or to fetch.
HandleFormSubmit ==
  /\ app = "ready"
  /\ \E fresh \in RandomTokens :
       LET ret == SubmitReturns[fields.website, RateLimitAdmits(localStorage, now),
                                fields.name, fields.email, fields.message]
           threat(f) == Threats[f][fields[f]]
           got == getCSRFToken(sessionStorage, fresh)
       IN /\ ret = "sent" => Len(inFlight) + toasts.shown + toasts.fading < MaxPending
          /\ submitReturn' = ret
          /\ localStorage' = IF ret = "honeypot" THEN localStorage
                             ELSE RateLimitStorage(localStorage, now)
          /\ errors' =
               CASE ret = "rate-limit" ->
                      ShowError("email", "Too many submissions. Please wait a moment before trying again.")
                 [] ret = "name-threat" ->
                      ShowError("name", "Security violation: " \o threat("name"))
                 [] ret = "email-threat" ->
                      ShowError("email", "Security violation: " \o threat("email"))
                 [] ret = "message-threat" ->
                      ShowError("message", "Security violation: " \o threat("message"))
                 [] ret = "name-invalid" -> ShowError("name", errors.name.textContent)
                 [] ret = "email-invalid" -> ShowError("email", errors.email.textContent)
                 [] ret = "message-invalid" -> ShowError("message", errors.message.textContent)
                 [] OTHER -> errors
          /\ IF ret = "sent"
             THEN /\ submitBtn' = [textContent |-> "Sending message...", disabled |-> TRUE]
                  /\ inFlight' = Append(inFlight,
                                        [body |-> FormBodies[fields.name, fields.email,
                                                             fields.message, got.token],
                                         originalText |-> submitBtn.textContent])
                  /\ sessionStorage' = got.storage
                  /\ generated' = generated + got.generated
             ELSE UNCHANGED <<submitBtn, inFlight, sessionStorage, generated>>
  /\ UNCHANGED <<app, fields, csrfField, toasts, now, rateResult, admitted, secVars,
                 loaded, typingVars,
                 valVars>>

\* A sequence without its i-th element.
Without(q, i) == SubSeq(q, 1, i - 1) \o SubSeq(q, i + 1, Len(q))

\* The i-th request is answered with an ok status: the errors are cleared,
\* showSuccessMessage runs and the form is reset. The button text of the
\* source ends in a check mark, which is not written here.
FetchOk(i) ==
  /\ i \in 1..Len(inFlight)
  /\ inFlight' = Without(inFlight, i)
  /\ errors' = [f \in {"name", "email", "message"} |->
                  [textContent |-> IF f = "email" THEN "" ELSE errors[f].textContent,
                   display |-> "none"]]
  /\ submitBtn' = [textContent |-> "Message Sent!", disabled |-> TRUE]
  /\ toasts' = [toasts EXCEPT !.shown = @ + 1]
  /\ fields' = [name |-> <<>>, email |-> <<>>, message |-> <<>>, website |-> <<>>]
  /\ UNCHANGED <<app, sessionStorage, csrfField, generated, submitReturn,
                 secVars, rateVars, loaded, typingVars,
                 valVars>>

\* The i-th request is rejected or answered with another status: the catch
\* handler reports it and gives the button back.
FetchFail(i) ==
  /\ i \in 1..Len(inFlight)
  /\ inFlight' = Without(inFlight, i)
  /\ errors' = ShowError("email", "Error sending message. Please try again.")
  /\ submitBtn' = [textContent |-> inFlight[i].originalText, disabled |-> FALSE]
  /\ UNCHANGED <<app, fields, sessionStorage, csrfField, generated, toasts,
                 submitReturn, secVars, rateVars, loaded, typingVars,
                 valVars>>

\* The 4000 ms timer of showSuccessMessage: the notice starts to fade.
ToastTimeout ==
  /\ toasts.shown > 0
  /\ toasts' = [shown |-> toasts.shown - 1, fading |-> toasts.fading + 1]
  /\ UNCHANGED <<app, fields, sessionStorage, csrfField, generated, submitBtn,
                 errors, inFlight, submitReturn, secVars, rateVars, loaded, typingVars,
                 valVars>>

\* The 300 ms timer: the button is given back, setupFormValidation sets it
\* again from the fields and the notice is removed.
ToastRemoved ==
  /\ toasts.fading > 0
  /\ toasts' = [toasts EXCEPT !.fading = @ - 1]
  /\ submitBtn' = [textContent |-> "Send Message",
                   disabled |-> ButtonStates[fields.name, fields.email, fields.message]]
  /\ UNCHANGED <<app, fields, sessionStorage, csrfField, generated, errors,
                 inFlight, submitReturn, secVars, rateVars, loaded, typingVars,
                 valVars>>

FormNext ==
  \/ FormHandlerInit
  \/ \E fill \in FormFills : FillForm(fill)
  \/ HandleFormSubmit
  \/ \E i \in 1..MaxPending : FetchOk(i)
  \/ \E i \in 1..MaxPending : FetchFail(i)
  \/ ToastTimeout
  \/ ToastRemoved

SpecForm == FormInit /\ [][FormNext]_vars

\* ------------------------------------------------------------------------
\* Contact form with a visitor at the keyboard: input and blur events of the
\* fields, and submit events only while the button is enabled
\* ------------------------------------------------------------------------

\* The optional scripts a page may load besides main.js.
Scripts == {"NamesDatabase", "SemanticNameValidator"}

\* A page load in a fresh session, with any of the optional scripts.
TypeInit ==
  /\ SecIdle
  /\ RateIdle
  /\ ValIdle
  /\ PageIdle
  /\ TypingIdle
  /\ loaded \in SUBSET Scripts

\* An error element of which nothing has been written yet.
Unwritten == [textContent |-> "unwritten", display |-> "unwritten"]

\* What the listeners write into their error elements for the typed
\* values: one row for each field, value and set of loaded scripts.
ListenerWrites ==
  {[field |-> "name", value |-> v, scripts |-> sc,
    written |-> validateName(v, sc, Unwritten)] :
     v \in TypedValues.name, sc \in SUBSET Scripts}
  \cup {[field |-> "email", value |-> v, scripts |-> sc,
          written |-> validateEmail(v, Unwritten)] :
           v \in TypedValues.email, sc \in SUBSET Scripts}
  \cup {[field |-> "message", value |-> v, scripts |-> sc,
          written |-> validateMessageListener(v, Unwritten)] :
           v \in TypedValues.message, sc \in SUBSET Scripts}

\* The error element of field f after the listener FormHandler.init
\* attached to the field's input and blur events ran on value.
Listener(f, value) ==
  LET row == CHOOSE r \in ListenerWrites :
               r.field = f /\ r.value = value /\ r.scripts = loaded
  IN [p \in {"textContent", "display"} |->
        IF row.written[p] = Unwritten[p] THEN errors[f][p] ELSE row.written[p]]

\* The listener of field f reports the field's present value as invalid: it
\* shows an error for a name or an email address, and for a message the
\* issues of validateMessage; the advice shown for a valid message of a
\* quality from 50 to 69 is no report.
ReportsInvalid(f) ==
  IF f = "message"
  THEN Trim(fields[f]) # <<>> /\ ~validateMessage(Trim(fields[f])).valid
  ELSE \E r \in ListenerWrites :
          /\ r.field = f /\ r.value = fields[f] /\ r.scripts = loaded
          /\ r.written.display = "block"

\* An input or a blur event on one of the fields.  An input event changes
\* the field to v: the field's listener runs and then updateButtonState.
\* A blur event leaves the value as it is: only the field's listener runs.
FieldEvent ==
  /\ app = "ready"
  /\ \E f \in {"name", "email", "message"} : \E v \in TypedValues[f] :
       LET event == IF v = fields[f] THEN "blur" ELSE "input"
       IN /\ fields' = [fields EXCEPT ![f] = v]
          /\ errors' = [errors EXCEPT ![f] = Listener(f, v)]
          /\ submitBtn' =
               IF event = "input"
               THEN [submitBtn EXCEPT
                       !.disabled = ButtonStates[fields'.name, fields'.email,
                                                 fields'.message]]
               ELSE submitBtn
  /\ UNCHANGED <<app, sessionStorage, csrfField, generated, inFlight, toasts,
                 submitReturn, secVars, rateVars, loaded, typingVars,
                 valVars>>

\* The visitor submits the form, which a disabled button does not allow.
Submit ==
  /\ ~submitBtn.disabled
  /\ HandleFormSubmit

TypeNext ==
  \/ FormHandlerInit
  \/ FieldEvent
  \/ Submit
  \/ \E i \in 1..MaxPending : FetchOk(i)
  \/ \E i \in 1..MaxPending : FetchFail(i)
  \/ ToastTimeout
  \/ ToastRemoved

SpecType == TypeInit /\ [][TypeNext]_vars

\* ------------------------------------------------------------------------
\* Email checks called on their own: validateEmailLocal, isValidUsername,
\* detectDomainTypo and isSuspiciousDomain
\* ------------------------------------------------------------------------

\* Local parts: plain names, the generic and keyboard words with and without
\* a tail, a two-letter one, and runs of five, six and seven consonants.
EmailUsers ==
  {"john", "user", "ab", "fake", "admin1", "testuser", "qwerty", "asdfgh",
   "aebrtskio", "aebrtsklio", "aebrtsklmio", "sarah"}

\* Domains: providers, providers one or two edits from another provider,
\* mistyped providers, a provider name under another suffix and domains of
\* no provider.
EmailDomains ==
  {"gmail.com", "mail.com", "aol.com", "gmx.com", "gmial.com", "gmdail.com",
   "yahho.com", "outlok.com", "icloud.net", "xyz.com", "example.org",
   "gnarlydomain123.com"}

\* The addresses user@domain of these.
EmailInputs == {Str(u \o "@" \o d) : u \in EmailUsers, d \in EmailDomains}

\* The part of an address before and after the "@".
UserOf(email) == SplitAt(email, "@")[1]

DomainOf(email) == SplitAt(email, "@")[2]

EmailInit ==
  /\ SecIdle
  /\ RateIdle
  /\ FormIdle
  /\ valInput \in EmailInputs
  /\ valOut = NoResult

\* The result of a call of fn on the address or on one of its parts.
Returned(fn, value) == [called |-> TRUE, call |-> fn, result |-> value]

ValidateEmailLocalCall ==
  /\ valOut' = Returned("validateEmailLocal", validateEmailLocal(valInput))
  /\ UNCHANGED <<valInput, secVars, rateVars, formVars>>

IsValidUsernameCall ==
  /\ valOut' = Returned("isValidUsername", isValidUsername(UserOf(valInput)))
  /\ UNCHANGED <<valInput, secVars, rateVars, formVars>>

DetectDomainTypoCall ==
  /\ valOut' = Returned("detectDomainTypo", detectDomainTypo(DomainOf(valInput)))
  /\ UNCHANGED <<valInput, secVars, rateVars, formVars>>

IsSuspiciousDomainCall ==
  /\ valOut' = Returned("isSuspiciousDomain", isSuspiciousDomain(DomainOf(valInput)))
  /\ UNCHANGED <<valInput, secVars, rateVars, formVars>>

EmailNext ==
  \/ ValidateEmailLocalCall
  \/ IsValidUsernameCall
  \/ DetectDomainTypoCall
  \/ IsSuspiciousDomainCall

SpecEmail == EmailInit /\ [][EmailNext]_vars

\* ------------------------------------------------------------------------
\* Name validators called on their own: SemanticNameValidator.validateName
\* and MLNameValidator.validateName
\* ------------------------------------------------------------------------

\* Names: first names of three to five letters in several casings, one
\* without a, e, i, o or u, first names with a tripled letter, words of the
\* blacklist, a keyboard run and a name of two letters.
NameTexts ==
  {"Dan", "dan", "John", "JOHN", "Lynn", "James", "Sarah", "Anna", "Maria",
   "Annna Bel", "Saaarah", "nerd", "love", "test", "qwrtp", "Jo", "Robin"}

\* Databases of known names: none, the capitalised first names, and a
\* lower-case one with an entry of two letters.
NameDatabases ==
  {<<>>,
   <<Str("Dan"), Str("John"), Str("Lynn"), Str("James"), Str("Sarah"),
     Str("Anna"), Str("Maria")>>,
   <<Str("jo"), Str("john"), Str("joan"), Str("dana")>>}

\* Whether the database has the name, letter case apart.
InDatabase(inputName, databaseNames) ==
  \E k \in 1..Len(databaseNames) :
     ToLowerCase(databaseNames[k]) = ToLowerCase(inputName)

NameInit ==
  /\ SecIdle
  /\ RateIdle
  /\ FormIdle
  /\ valInput \in [name : {Str(t) : t \in NameTexts},
                   databaseNames : NameDatabases]
  /\ valOut = NoResult

SemanticValidateNameCall ==
  /\ valOut' = Returned("SemanticNameValidator.validateName",
                        SemanticNameValidator_validateName(valInput.name, BLACKLIST))
  /\ UNCHANGED <<valInput, secVars, rateVars, formVars>>

MLValidateNameCall ==
  /\ valOut' = Returned("MLNameValidator.validateName",
                        MLNameValidator_validateName(valInput.name,
                                                     valInput.databaseNames))
  /\ UNCHANGED <<valInput, secVars, rateVars, formVars>>

NameNext ==
  \/ SemanticValidateNameCall
  \/ MLValidateNameCall

SpecName == NameInit /\ [][NameNext]_vars

\* ------------------------------------------------------------------------
\* String metrics called on their own: jaroWinklerSimilarity and the two
\* levenshteinDistance functions
\* ------------------------------------------------------------------------

\* Longest string of a pair.
MaxPairLen == 3

\* The strings of the pairs: all strings of two letters, one of them in
\* both cases.
PairStrings == StringsUpTo({"a", "A", "b"}, MaxPairLen)

PairInit ==
  /\ SecIdle
  /\ RateIdle
  /\ FormIdle
  /\ valInput \in [str1 : PairStrings, str2 : PairStrings]
  /\ valOut = NoResult

JaroWinklerSimilarityCall ==
  /\ valOut' = Returned("jaroWinklerSimilarity",
                        jaroWinklerSimilarity(valInput.str1, valInput.str2))
  /\ UNCHANGED <<valInput, secVars, rateVars, formVars>>

LevenshteinDistanceCall ==
  /\ valOut' = Returned("FormHandler.levenshteinDistance",
                        levenshteinDistance(valInput.str1, valInput.str2))
  /\ UNCHANGED <<valInput, secVars, rateVars, formVars>>

MLLevenshteinDistanceCall ==
  /\ valOut' = Returned("MLNameValidator.levenshteinDistance",
                        MLNameValidator_levenshteinDistance(valInput.str1,
                                                            valInput.str2))
  /\ UNCHANGED <<valInput, secVars, rateVars, formVars>>

PairNext ==
  \/ JaroWinklerSimilarityCall
  \/ LevenshteinDistanceCall
  \/ MLLevenshteinDistanceCall

SpecPair == PairInit /\ [][PairNext]_vars

\* ------------------------------------------------------------------------
\* MessageAnalyzer.validateMessage called on its own
\* ------------------------------------------------------------------------

\* Sentences of one to six words: greetings, requests, one with three "@",
\* one with a letter five times in a row and one of single letters.
MessageSentences ==
  {"Hi", "Please call", "Thanks everybody", "I am ok",
   "Please call me back soon", "Mail a@b or c@d or e@f", "Zzzzz brrr",
   "a b c d e f"}

\* The messages of three of these sentences, each ended by a full stop.
MessageInputs ==
  {Str(s1 \o ". " \o s2 \o ". " \o s3 \o ".") :
     s1 \in MessageSentences, s2 \in MessageSentences, s3 \in MessageSentences}

MessageInit ==
  /\ SecIdle
  /\ RateIdle
  /\ FormIdle
  /\ valInput \in MessageInputs
  /\ valOut = NoResult

ValidateMessageCall ==
  /\ valOut' = Returned("MessageAnalyzer.validateMessage",
                        validateMessage(valInput))
  /\ UNCHANGED <<valInput, secVars, rateVars, formVars>>

SpecMessage == MessageInit /\ [][ValidateMessageCall]_vars

\* ------------------------------------------------------------------------
\* SecurityHelper.sanitizeInput called on its own
\* ------------------------------------------------------------------------

\* Longest enumerated argument of sanitizeInput.
MaxSanitizeLen == 4

\* The arguments: the strings of a letter, the angle brackets, a space, a
\* tab and the NUL character, two longer strings with a tag, and two values
\* that are not strings.
SanitizeInputs ==
  {JsString(s) :
     s \in StringsUpTo({"a", "<", ">", " ", "\t", "NUL"}, MaxSanitizeLen)
           \cup {<<" ", "<", "b", ">", "a", "NUL", "\t", "a", "\n">>,
                 Str("<scr<script>ipt>a</script>")}}
  \cup {JsNumber, JsUndefined}

SanitizeInit ==
  /\ argFieldName = "message"
  /\ argInput \in SanitizeInputs
  /\ verdict = NoResult
  /\ ldapFlag = NoResult
  /\ RateIdle
  /\ FormIdle
  /\ ValIdle

SanitizeInputCall ==
  /\ valOut' = Returned("sanitizeInput", sanitizeInput(argInput))
  /\ UNCHANGED <<valInput, secVars, rateVars, formVars>>

SpecSanitize == SanitizeInit /\ [][SanitizeInputCall]_vars

\* ---------------------------------------------------------------------------
\* SpecTyping: the typing animation on a page with or without #role-text
\* ---------------------------------------------------------------------------

TypingInit ==
  /\ SecIdle
  /\ RateIdle
  /\ ValIdle
  /\ PageIdle
  /\ loaded = {}
  /\ TypingOff
  /\ roleText \in {[present |-> p, textContent |-> <<>>] : p \in BOOLEAN}

\* TypingAnimation.init, called once by initializeApp: one timer of
\* config.delay.
TypingAnimationInit ==
  /\ animation = "off"
  /\ animation' = "on"
  /\ timers' = Append(timers, config.delay)
  /\ UNCHANGED <<state, roleText, app, fields, sessionStorage, csrfField,
                 generated, submitBtn, errors, inFlight, toasts, submitReturn,
                 loaded, secVars, rateVars, valVars>>

\* A pending timer fires and runs startAnimation (roles are numbered from 0
\* in the code). The text to display is computed from the character index
\* before the handler changes it, and written after the handler has run.
startAnimation ==
  /\ timers # <<>>
  /\ IF ~roleText.present
       THEN /\ timers' = Tail(timers)
            /\ UNCHANGED <<state, roleText>>
       ELSE LET currentRole == roles[state.roleIndex + 1]
                displayText == Str("A passionate ")
                                 \o substring0(currentRole, state.charIndex)
                handled == IF state.isDeleting
                             THEN handleDeletion(state, currentRole)
                             ELSE handleTyping(state, currentRole)
            IN  /\ state' = handled.state
                /\ timers' = Tail(timers) \o handled.timeout
                /\ roleText' = [roleText EXCEPT !.textContent = displayText]
  /\ UNCHANGED <<animation, app, fields, sessionStorage, csrfField,
                 generated, submitBtn, errors, inFlight, toasts, submitReturn,
                 loaded, secVars, rateVars, valVars>>

TypingNext ==
  \/ TypingAnimationInit
  \/ startAnimation

\* The browser runs initializeApp when the document is ready and fires every
\* pending timer after its delay.
SpecTyping ==
  /\ TypingInit
  /\ [][TypingNext]_vars
  /\ WF_vars(TypingAnimationInit)
  /\ WF_vars(startAnimation)

\* ------------------------------------------------------------------------
\* Claims about the rate limiter (SpecRate)
\* ------------------------------------------------------------------------

\* The admissions of the history that lie less than one window before t.
AdmittedWithin(t) == {k \in 1..Len(admitted) : t - admitted[k].at < WindowMs}

\* The oldest timestamp of the stored log is at least one window old.
OldestExpired ==
  LET log == JsonParse(GetItemOrEmpty(localStorage, RateLimitKey))
  IN  Len(log) > 0 /\ now - log[1] >= WindowMs

\* C1: starting from an empty log with a non-decreasing clock, a call of
\* checkRateLimit returns true exactly when fewer than 5 calls were admitted
\* in the 60 seconds before it (so five calls in one window pass and the
\* sixth is refused), it returns true once 60 seconds have passed since the
\* oldest recorded timestamp, and any six consecutive admissions lie at
\* least 60 seconds apart.
C1_FiveCallsPerWindow ==
  [][\A c \in Callers :
       checkRateLimit(c) =>
         /\ rateResult'.result = (Cardinality(AdmittedWithin(now)) < 5)
         /\ OldestExpired => rateResult'.result
         /\ Len(admitted') = 6 => admitted'[6].at - admitted'[1].at >= 60000]_vars

\* C1 witness: a call is refused with five admissions in the window behind it,
\* and the history already holds an admission that is older than the window.
C1_Witness ==
  /\ rateResult.called
  /\ ~rateResult.result
  /\ Cardinality(AdmittedWithin(now)) = 5
  /\ Len(admitted) = 6

\* C2: a call of checkRateLimit that returns false leaves localStorage as it
\* was before the call.
C2_RejectedCallLeavesLog ==
  [][\A c \in Callers :
       (checkRateLimit(c) /\ ~rateResult'.result) => localStorage' = localStorage]_vars

\* C2 witness: the last call returned false while the log held five entries.
C2_Witness ==
  /\ rateResult.called
  /\ ~rateResult.result
  /\ Len(JsonParse(GetItemOrEmpty(localStorage, RateLimitKey))) = 5

FieldCap(f) ==
  IF f = "name" THEN 100 ELSE IF f = "email" THEN 255
  ELSE IF f = "message" THEN 5000 ELSE 0

\* The checks in the documented order, each with whether it matches and the
\* threat it reports.
OrderedChecks(f, in) ==
  << [hit |-> in.type # "string", threat |-> "Non-string input detected"],
     [hit |-> in.type = "string" /\ FieldCap(f) # 0 /\ Len(in.val) > FieldCap(f),
      threat |-> "Input exceeds maximum length"],
     [hit |-> detectSQLInjection(in), threat |-> "SQL injection attempt detected"],
     [hit |-> detectXSSInjection(in), threat |-> "XSS injection attempt detected"],
     [hit |-> detectNoSQLInjection(in), threat |-> "NoSQL injection attempt detected"],
     [hit |-> detectLDAPInjection(in), threat |-> "LDAP injection attempt detected"],
     [hit |-> detectCommandInjection(in), threat |-> "Command injection attempt detected"],
     [hit |-> detectPathTraversal(in), threat |-> "Path traversal attempt detected"] >>

\* C5: validateInputSecurity reports the threat of the first check, in the
\* order non-string, length cap, SQL, XSS, NoSQL, LDAP, command, path
\* traversal, that matches, and valid with a null threat when none does.
C5_FirstMatchingCheckWins ==
  verdict.called =>
    LET checks == OrderedChecks(argFieldName, argInput)
        hits == {k \in 1..8 : checks[k].hit}
    IN  IF hits = {}
        THEN verdict.result = [valid |-> TRUE, threat |-> null]
        ELSE verdict.result =
               [valid |-> FALSE,
                threat |-> checks[CHOOSE k \in hits : \A m \in hits : k <= m].threat]

\* C5 witness: an input that matches the command and the path traversal
\* check was answered with the command threat.
C5_Witness ==
  /\ verdict.called
  /\ verdict.result.threat = "Command injection attempt detected"
  /\ detectPathTraversal(argInput)

\* The script-tag payloads of the specification and the documentation.
ScriptTagPayloads ==
  {JsString(Str("<script>alert(1)</script>")),
   JsString(Str("Check this <script>alert('Hacked!')</script>"))}

\* C6: a script-tag payload is rejected with a threat that names XSS.
C6_ScriptTagThreatNamesXSS ==
  (verdict.called /\ argInput \in ScriptTagPayloads) =>
    /\ ~verdict.result.valid
    /\ Includes(Str(verdict.result.threat), Str("XSS"))

\* The legitimate texts of the documentation: one ";" or one "&" and
\* nothing else a detector looks for.
LegitimateTexts ==
  {JsString(Str("I need an API; help!")),
   JsString(Str("I need; a quote for your services")),
   JsString(Str("Tom & Jerry"))}

\* C7: a legitimate text with a single semicolon or a single "&" is judged
\* valid with a null threat.
C7_SingleSeparatorNotFlagged ==
  (verdict.called /\ argInput \in LegitimateTexts) =>
    verdict.result = [valid |-> TRUE, threat |-> null]

\* C8: detectLDAPInjection flags a string exactly when it holds more than
\* one occurrence, counted together, of the characters * ( ) \ & |.
C8_LdapFlagIffSeveralChars ==
  (ldapFlag.called /\ argInput.type = "string") =>
    (ldapFlag.result <=>
       Cardinality({i \in 1..Len(argInput.val) :
                      argInput.val[i] \in {"*", "(", ")", "\\", "&", "|"}}) > 1)

\* C29: validateInputSecurity never returns the threat 'LDAP injection
\* attempt detected', for any field name and any input: whatever
\* detectLDAPInjection flags, detectSQLInjection flags as well, and the SQL
\* test comes first.
C29_LdapThreatNeverReturned ==
  /\ verdict.called =>
       verdict.result.threat # "LDAP injection attempt detected"
  /\ (ldapFlag.called /\ ldapFlag.result) => detectSQLInjection(argInput)

\* An input that detectLDAPInjection flags is reported as SQL injection.
C29_Witness ==
  /\ ldapFlag.called
  /\ ldapFlag.result
  /\ verdict.called
  /\ verdict.result = [valid |-> FALSE,
                       threat |-> "SQL injection attempt detected"]

\* ------------------------------------------------------------------------
\* Claims about the contact form (SpecForm)
\* ------------------------------------------------------------------------

\* The three fields whose values are posted.
PostedFields == {"name", "email", "message"}

\* C4: a step that issues a fetch request is taken only when
\* validateInputSecurity judges the raw value of each of the name, email and
\* message fields valid, and the body posted carries for each of them the
\* sanitizeInput output of that raw value, next to the fixed _captcha entry
\* and the CSRF token.
C4_RawValuesCheckedSanitizedSent ==
  [][Len(inFlight') > Len(inFlight) =>
       LET body == inFlight'[Len(inFlight')].body
       IN /\ DOMAIN body = PostedFields \cup {"_captcha", "csrf_token"}
          /\ body._captcha = "false"
          /\ \A f \in PostedFields :
               /\ body[f] = sanitizeInput(JsString(fields[f]))
               /\ validateInputSecurity(f, JsString(fields[f])).valid]_vars

\* A request is in flight whose name differs from the raw value of the
\* field it was taken from.
C4_Witness ==
  /\ submitReturn = "sent"
  /\ Len(inFlight) = 1
  /\ inFlight[1].body.name = Str("John")
  /\ fields.name = Str(" <b>John</b> ")

\* C9: a submit event with a honeypot value that is not empty after
\* trimming changes nothing: the log of the rate limiter, the error
\* elements, the button and the requests in flight stay as they are; with
\* an empty or blank honeypot the handler goes on to the rate limiter, which
\* records the attempt or refuses it.
C9_HoneypotGateFirstAndSilent ==
  [][HandleFormSubmit =>
       IF Trim(fields.website) # <<>>
       THEN /\ submitReturn' = "honeypot"
            /\ UNCHANGED <<localStorage, errors, submitBtn, inFlight, sessionStorage>>
       ELSE /\ submitReturn' # "honeypot"
            /\ localStorage' = RateLimitStorage(localStorage, now)
            /\ ~RateLimitAdmits(localStorage, now) <=> submitReturn' = "rate-limit"]_vars

\* The handler has left through the honeypot gate while the rate limiter
\* is at capacity, and no refusal is on display.
C9_Witness ==
  /\ submitReturn = "honeypot"
  /\ Trim(fields.website) # <<>>
  /\ ~RateLimitAdmits(localStorage, now)
  /\ errors.email.textContent # "Too many submissions. Please wait a moment before trying again."

\* C10: at most one token is generated on a page; once FormHandler.init has
\* run, sessionStorage holds the token written into the #csrf_token field
\* and every request in flight carries that token.
C10_TokenGeneratedOncePerSession ==
  /\ generated <= 1
  /\ app = "ready" =>
       /\ CsrfKey \in DOMAIN sessionStorage
       /\ sessionStorage[CsrfKey] = csrfField
       /\ csrfField # ""
       /\ \A i \in 1..Len(inFlight) : inFlight[i].body.csrf_token = csrfField

\* A token was generated by FormHandler.init and a later submission
\* carries it.
C10_Witness ==
  /\ generated = 1
  /\ Len(inFlight) = 1
  /\ inFlight[1].body.csrf_token = csrfField
  /\ csrfField \in RandomTokens

\* ------------------------------------------------------------------------
\* Claims about the form while the visitor types (SpecType)
\* ------------------------------------------------------------------------

\* C11: in every state of the form the submit button is enabled only if the
\* name, email and message fields are all valid, and it is disabled whenever
\* the listener of one of the fields reports the field as invalid.
\* Does not hold: updateButtonState accepts a name on its characters alone,
\* so the button is enabled for the two-letter name the name listener
\* reports as too short, and the catch handler of fetch enables the button
\* whatever the fields hold by then.
C11_ButtonEnabledOnlyWhenValid ==
  (app = "ready" /\ ~submitBtn.disabled) =>
    /\ ~ButtonStates[fields.name, fields.email, fields.message]
    /\ \A f \in {"name", "email", "message"} : ~ReportsInvalid(f)

\* C28: while a request of handleFormSubmit is in flight the submit button
\* is disabled, whatever input events occur in the fields meanwhile.
C28_ButtonDisabledWhileInFlight ==
  inFlight # <<>> => submitBtn.disabled

\* ------------------------------------------------------------------------
\* Claims about the email checks (SpecEmail)
\* ------------------------------------------------------------------------

\* The name of a domain: the part before its first dot.
DomainName(domain) == ToLowerCase(SplitAt(domain, ".")[1])

\* C12: domain-typo detection never flags a domain that exactly equals a
\* common provider, also when the provider lies within the typo threshold of
\* another provider: detectDomainTypo reports a domain of its provider list
\* as no typo, and isSuspiciousDomain a domain whose name is a name of its
\* list as not suspicious.
C12_ExactProviderNeverFlagged ==
  valOut.called =>
    /\ (valOut.call = "detectDomainTypo" /\ isKnownDomain(DomainOf(valInput)))
         => ~valOut.result.typo
    /\ (valOut.call = "isSuspiciousDomain"
        /\ \E k \in 1..Len(isSuspiciousDomain_commonDomains) :
              DomainName(DomainOf(valInput))
                = DomainName(Str(isSuspiciousDomain_commonDomains[k])))
         => ~valOut.result

\* detectDomainTypo was called on mail.com, one edit from the provider
\* gmail.com that precedes it in the list, and reported no typo.
C12_Witness ==
  /\ valOut.called
  /\ valOut.call = "detectDomainTypo"
  /\ DomainOf(valInput) = Str("mail.com")
  /\ levenshteinDistance(Str("mail.com"), Str(commonDomains[1])) = 1
  /\ ~valOut.result.typo

\* The names of the providers detectDomainTypo compares with.
ProviderNames == {DomainName(Str(commonDomains[k])) : k \in 1..Len(commonDomains)}

\* The typo rule as claimed: some provider name lies at a distance d from
\* the domain name with 0 < d <= 3 and d <= ceil(0.4 * the longer length).
WithinTypoRule(domainName) ==
  \E provider \in ProviderNames :
     LET d == levenshteinDistance(domainName, provider)
         maxLen == IF Len(domainName) >= Len(provider)
                   THEN Len(domainName) ELSE Len(provider)
     IN d > 0 /\ d <= 3 /\ d <= (4 * maxLen + 9) \div 10

\* C13: a domain that is not an exact provider match is flagged as a likely
\* typo if and only if some provider name lies within the typo rule of the
\* domain name, and a flagged domain makes the verdict invalid with a "did
\* you mean" suggestion.
\* Does not hold: detectDomainTypo measures whole domains, suffix included,
\* against ceil(0.3 * the provider's length) and has no cap of 3.
C13_FlaggedIffWithinTypoRule ==
  LET domainName == DomainName(DomainOf(valInput))
  IN (valOut.called /\ domainName \notin ProviderNames) =>
       /\ valOut.call = "detectDomainTypo"
            => (valOut.result.typo <=> WithinTypoRule(domainName))
       /\ (valOut.call = "validateEmailLocal" /\ WithinTypoRule(domainName)
           /\ isValidUsername(UserOf(valInput)).valid)
            => /\ ~valOut.result.valid
               /\ \E k \in 1..Len(commonDomains) :
                    valOut.result.error
                      = "Did you mean " \o commonDomains[k]
                        \o "? That looks like a typo in the domain."

\* The texts validateEmailLocal gives for a user name it rejects.
UsernameErrors ==
  [generic |-> "That username looks like a test account. Please use a real name or email.",
   keyboard |-> "That username looks like a keyboard pattern. Please use a real name.",
   short |-> "Username is too short. Use at least 3 characters.",
   gibberish |-> "That username looks like gibberish. Please use a real name."]

\* The text validateEmailLocal gives for a mistyped domain.
IsDidYouMean(error) ==
  \E k \in 1..Len(commonDomains) :
     error = "Did you mean " \o commonDomains[k]
             \o "? That looks like a typo in the domain."

\* C14 as claimed: the email validator reports user@gmail.com as valid.
\* Does not hold: "user" is one of the generic names isValidUsername
\* rejects.
C14_UserAtGmailValid ==
  (valOut.called /\ valOut.call = "validateEmailLocal"
   /\ valInput = Str("user@gmail.com"))
    => valOut.result.valid

\* C14 amended: the email validator reports user@gmail.com as invalid with
\* the test-account reason, although its domain is a provider and no typo;
\* john@gmail.com, with the same domain, is valid.
C14_UserAtGmailIsGeneric ==
  (valOut.called /\ valOut.call = "validateEmailLocal") =>
    /\ valInput = Str("user@gmail.com") =>
         /\ ~valOut.result.valid
         /\ valOut.result.error = UsernameErrors.generic
         /\ ~detectDomainTypo(DomainOf(valInput)).typo
    /\ valInput = Str("john@gmail.com") => valOut.result.valid

\* validateEmailLocal was called on user@gmail.com and gave a verdict.
C14_Witness ==
  /\ valOut.called
  /\ valOut.call = "validateEmailLocal"
  /\ valInput = Str("user@gmail.com")
  /\ ~valOut.result.valid

\* C15 as claimed: the domain-typo check is decided before any check of the
\* local part, so an address with a mistyped provider domain and a too short
\* or suspicious local part is rejected with the "did you mean" reason.
\* Does not hold: validateEmailLocal examines the user name first.
C15_DomainTypoBeforeUsername ==
  (valOut.called /\ valOut.call = "validateEmailLocal"
   /\ detectDomainTypo(DomainOf(valInput)).typo
   /\ WithinTypoRule(DomainName(DomainOf(valInput)))
   /\ ~isValidUsername(UserOf(valInput)).valid)
    => IsDidYouMean(valOut.result.error)

\* C15 amended: the checks stop at the first failure and the local part is
\* checked before the domain, so an address whose local part is too short
\* or suspicious is rejected with the reason of the local part, whatever
\* its domain, and a mistyped domain is reported only for a local part that
\* passes.
C15_UsernameBeforeDomainTypo ==
  (valOut.called /\ valOut.call = "validateEmailLocal") =>
    LET usernameCheck == isValidUsername(UserOf(valInput))
    IN /\ ~usernameCheck.valid =>
            /\ ~valOut.result.valid
            /\ valOut.result.error = UsernameErrors[usernameCheck.reason]
       /\ (usernameCheck.valid /\ detectDomainTypo(DomainOf(valInput)).typo) =>
            /\ ~valOut.result.valid
            /\ IsDidYouMean(valOut.result.error)

\* validateEmailLocal was called on an address with a two-letter local part
\* and a mistyped gmail domain and gave the reason of the local part.
C15_Witness ==
  /\ valOut.called
  /\ valOut.call = "validateEmailLocal"
  /\ valInput = Str("ab@gmial.com")
  /\ detectDomainTypo(DomainOf(valInput)).typo
  /\ valOut.result.error = UsernameErrors.short

\* The local part starts with one of the keyboard patterns qwerty, asdf,
\* zxcv, or is one of the generic words followed by letters or digits only.
MatchesUsernamePattern(username) ==
  LET lower == ToLowerCase(username)
  IN \/ \E p \in {"qwerty", "asdf", "zxcv"} : StartsWith(lower, Str(p))
     \/ \E w \in {"test", "admin", "user", "demo", "guest", "temp", "fake"} :
          /\ StartsWith(lower, Str(w))
          /\ \A i \in (Len(Str(w)) + 1)..Len(lower) :
               lower[i] \in LowerLetters \cup Digits

\* C16: a local part that starts with a keyboard pattern or matches a
\* generic-username pattern is rejected, and with the reason of the pattern
\* rather than of the vowel ratio.
\* Does not hold: isValidUsername compares the whole local part with its
\* list of generic names, which has no "fake", so a generic word with a
\* tail and "fake" itself pass.
C16_PatternUsernamesRejected ==
  (valOut.called /\ valOut.call = "isValidUsername"
   /\ MatchesUsernamePattern(UserOf(valInput)))
    => /\ ~valOut.result.valid
       /\ valOut.result.reason \in {"generic", "keyboard"}

\* C17: a local part with a run of 6 or more consecutive consonants is
\* rejected as gibberish, whatever its vowel ratio.
\* Does not hold: for a local part of more than 4 characters
\* isValidUsername looks for a run of 7.
C17_SixConsonantsRejected ==
  (valOut.called /\ valOut.call = "isValidUsername"
   /\ HasRun(UserOf(valInput), Consonants, 6))
    => /\ ~valOut.result.valid
       /\ valOut.result.reason = "gibberish"

\* ------------------------------------------------------------------------
\* Claims about the name validators (SpecName)
\* ------------------------------------------------------------------------

\* C18: validateName returns valid = false for every input whose lowercase
\* form is in the non-name blacklist, whatever its vowel ratio, affixes or
\* confidence score.
\* Does not hold: SemanticNameValidator.validateName returns
\* looksLike || confidenceScore >= 70, and the confidence score does not
\* look at the blacklist.
C18_BlacklistedNeverValid ==
  (valOut.called /\ Text(ToLowerCase(valInput.name)) \in BLACKLIST)
    => ~valOut.result.valid

\* C19: validateName rejects every input that has a run of three or more
\* identical characters, whatever its length, spaces, vowel ratio or
\* affixes.
\* Does not hold: in SemanticNameValidator.validateName the run costs the
\* confidence score 30 points, which the bonuses of a second word and of
\* the affixes can make up for.
C19_TripledCharacterNeverValid ==
  (valOut.called /\ hasRepeatedLetters(ToLowerCase(valInput.name)))
    => ~valOut.result.valid

\* C20: a name of 3 or more characters that the supplied database holds,
\* letter case apart, is accepted by MLNameValidator.validateName as an
\* exact database match.
\* Does not hold: the database is consulted through jaroWinklerSimilarity
\* only, which is below 0.7 for a name of 3 letters against itself, and
\* isObviouslyNotAName comes before the database.
C20_DatabaseMemberAccepted ==
  (valOut.called /\ valOut.call = "MLNameValidator.validateName"
   /\ Len(valInput.name) >= 3
   /\ InDatabase(valInput.name, valInput.databaseNames))
    => /\ valOut.result.valid
       /\ valOut.result.reason = "Exact match in database"

ShareCharacter(str1, str2) ==
  \E i \in 1..Len(str1) : \E j \in 1..Len(str2) :
     LowerChar(str1[i]) = LowerChar(str2[j])

\* C21: jaroWinklerSimilarity returns a value in [0,1]; it returns 1 for two
\* equal non-empty strings, letter case apart and whatever their length,
\* and 0 for strings that share no character.
\* Does not hold: matchDistance is Math.max(len1, len2) / 2 - 1 without
\* rounding, so for strings of 3 characters only the first character of a
\* string is matched with itself.
C21_JaroWinklerOfEqualStringsIsOne ==
  (valOut.called /\ valOut.call = "jaroWinklerSimilarity")
    => /\ valOut.result.num >= 0
       /\ valOut.result.num <= valOut.result.den
       /\ (valInput.str1 # <<>>
           /\ ToLowerCase(valInput.str1) = ToLowerCase(valInput.str2))
            => valOut.result = [num |-> 1, den |-> 1]
       /\ (valInput.str1 # <<>> /\ valInput.str2 # <<>>
           /\ ~ShareCharacter(valInput.str1, valInput.str2))
            => valOut.result.num = 0

\* C22: the levenshteinDistance functions compute the edit distance: the
\* result is 0 exactly for equal strings, is the length of the other string
\* when one string is empty, is the same for (a, b) and for (b, a), and is
\* the same in FormHandler and in MLNameValidator.
C22_LevenshteinIsEditDistance ==
  (valOut.called /\ valOut.call \in {"FormHandler.levenshteinDistance",
                                     "MLNameValidator.levenshteinDistance"})
    => /\ (valOut.result = 0) <=> (valInput.str1 = valInput.str2)
       /\ valInput.str1 = <<>> => valOut.result = Len(valInput.str2)
       /\ valInput.str2 = <<>> => valOut.result = Len(valInput.str1)
       /\ valOut.result = levenshteinDistance(valInput.str2, valInput.str1)
       /\ valOut.result = MLNameValidator_levenshteinDistance(valInput.str2,
                                                              valInput.str1)
       /\ valOut.result = levenshteinDistance(valInput.str1, valInput.str2)
       /\ valOut.result = MLNameValidator_levenshteinDistance(valInput.str1,
                                                              valInput.str2)

\* MLNameValidator.levenshteinDistance returned for two different strings
\* that have an equal character at the same place, where the indicator
\* is 0 and the distance is less than the longer length.
C22_Witness ==
  /\ valOut.called
  /\ valOut.call = "MLNameValidator.levenshteinDistance"
  /\ valInput.str1 # valInput.str2
  /\ Len(valInput.str1) = 3
  /\ Len(valInput.str2) = 2
  /\ valInput.str1[2] = valInput.str2[2]
  /\ valOut.result = 2

\* ------------------------------------------------------------------------
\* Claims about validateMessage (SpecMessage)
\* ------------------------------------------------------------------------

\* The message has three sentences, an uppercase letter, sentence
\* punctuation, at least 5 words and no spam keyword.
WellFormedMessage(text) ==
  LET pieces == SplitRuns(text, {".", "!", "?"})
      sentences == {j \in 1..Len(pieces) : Trim(pieces[j]) # <<>>}
      words == SplitRuns(Trim(text), WhiteSpace)
  IN /\ Cardinality(sentences) = 3
     /\ \E i \in 1..Len(text) : text[i] \in UpperLetters
     /\ \E i \in 1..Len(text) : text[i] \in {".", "!", "?"}
     /\ Len(words) >= 5
     /\ \A keyword \in SPAM_KEYWORDS : ~Includes(ToLowerCase(text), Str(keyword))

\* The message has at least 2 characters other than white space for each
\* of its words.
WordsOfTwoCharacters(text) ==
  Cardinality({i \in 1..Len(text) : text[i] \notin WhiteSpace})
    >= 2 * Len(SplitRuns(Trim(text), WhiteSpace))

HasTag(s) == \E i \in 1..Len(s) : \E j \in (i + 1)..Len(s) : s[i] = "<" /\ s[j] = ">"

\* The C0 control characters U+0000 to U+001F of the model's alphabet.
C0Controls == {"NUL", "BEL", "BS", "\t", "\n", "VT", "\f", "\r", "ESC"}

\* The string starts or ends with white space.
HasOuterWhiteSpace(s) == s # <<>> /\ (s[1] \in WhiteSpace \/ s[Len(s)] \in WhiteSpace)

\* C24: sanitizeInput(s) has no HTML tag, no C0 control character and no
\* leading or trailing white space; for an argument that is not a string it
\* is the empty string.
\* Does not hold: a tab, a line feed or a carriage return inside the string
\* is kept.
C24_SanitizedHasNoControlCharacter ==
  valOut.called
    => /\ ~HasTag(valOut.result)
       /\ \A i \in 1..Len(valOut.result) : valOut.result[i] \notin C0Controls
       /\ ~HasOuterWhiteSpace(valOut.result)
       /\ argInput.type # "string" => valOut.result = <<>>

\* C24, amended: the same with the tab, the line feed and the carriage
\* return left out of the control characters.
C24_SanitizedHasNoControlButTabAndNewline ==
  valOut.called
    => /\ ~HasTag(valOut.result)
       /\ \A i \in 1..Len(valOut.result) :
            valOut.result[i] \notin C0Controls \ {"\t", "\n", "\r"}
       /\ ~HasOuterWhiteSpace(valOut.result)
       /\ argInput.type # "string" => valOut.result = <<>>

\* sanitizeInput was called on a string with a tag, a NUL, a tab inside and
\* white space at both ends, and kept the tab alone.
C24_Witness ==
  /\ valOut.called
  /\ argInput = JsString(<<" ", "<", "b", ">", "a", "NUL", "\t", "a", "\n">>)
  /\ valOut.result = <<"a", "\t", "a">>

\* C25: every rejection carries a non-empty explanatory string; for the
\* name validators, each verdict with valid = false has a non-empty reason.
\* Does not hold: SemanticNameValidator.validateName gives a reason only
\* for a name of fewer than 3 characters; its other verdicts have no reason
\* property.
C25_RejectedNameHasReason ==
  (valOut.called /\ ~valOut.result.valid)
    => valOut.result.reason \notin {undefined, null, ""}

\* ---------------------------------------------------------------------------
\* Claims about the typing animation (SpecTyping)
\* ---------------------------------------------------------------------------

Blank == Str("A passionate ")

FullText(r) == Blank \o roles[r + 1]

\* One text is the other with one more character at its end.
OneCharacterApart(s, t) ==
  \/ Len(t) = Len(s) + 1 /\ SubSeq(t, 1, Len(s)) = s
  \/ Len(s) = Len(t) + 1 /\ SubSeq(s, 1, Len(t)) = t

\* What one step of the animation may do on a page that has #role-text.
OneAnimationStep ==
  roleText.present =>
    /\ Len(timers') = 1
    /\ roleText.textContent # <<>> =>
         /\ \/ roleText'.textContent = roleText.textContent
            \/ OneCharacterApart(roleText.textContent, roleText'.textContent)
         /\ ~state.isDeleting =>
              Len(roleText'.textContent) >= Len(roleText.textContent)
         /\ state.isDeleting =>
              Len(roleText'.textContent) <= Len(roleText.textContent)
    /\ ~state.isDeleting /\ state'.isDeleting =>
         roleText'.textContent = FullText(state.roleIndex)
    /\ state'.roleIndex # state.roleIndex =>
         /\ state.isDeleting
         /\ state'.roleIndex = (state.roleIndex + 1) % Len(roles)
         /\ roleText'.textContent = Blank

\* C26: on a page that has #role-text, at most one animation timer is
\* pending at any time and every step schedules exactly one next step; the
\* text changes by at most one character per step, growing while typing and
\* shrinking while deleting; deletion starts only when the full text of the
\* current role is shown; the role index changes only in a deletion step that
\* leaves the role part empty, and then to the next index modulo the number
\* of roles; and the animation goes on forever: each role is fully shown
\* again and again, and after each full text comes the empty text with the
\* next role's index.
C26_AnimationCyclesThroughRolesInOrder ==
  /\ [](roleText.present => Len(timers) <= 1)
  /\ [][OneAnimationStep]_vars
  /\ \A r \in 0..(Len(roles) - 1) :
       /\ roleText.present ~> (roleText.textContent = FullText(r))
       /\ [](roleText.textContent = FullText(r) => state.roleIndex = r)
       /\ (roleText.present /\ roleText.textContent = FullText(r))
            ~> (/\ roleText.textContent = Blank
                /\ state.roleIndex = (r + 1) % Len(roles))

\* The animation has gone through all the roles and is back at the first:
\* the character index is below zero only right after a deletion has ended.
C26_Witness ==
  /\ roleText.present
  /\ state.roleIndex = 0
  /\ state.charIndex = -1
  /\ roleText.textContent = Blank
  /\ Len(timers) = 1

\* ---------------------------------------------------------------------------
\* Claims about the order of the gates of handleFormSubmit (SpecForm)
\* ---------------------------------------------------------------------------

\* The slots of the rate limiter in use: the submissions of the last minute
\* that localStorage holds.
SlotsUsed == Len(RecentSubmissions(localStorage, now))

AfterRateLimiter ==
  {"name-threat", "email-threat", "message-threat",
   "name-invalid", "email-invalid", "message-invalid", "sent"}

\* C27: every run of handleFormSubmit that the rate limiter admits, whether
\* it then stops at injection detection, stops at field validation or sends
\* the request, adds one submission to the stored list, and no step, the
\* failure of a request included, takes a stored submission away.
C27_AdmittedAttemptConsumesSlot ==
  [][/\ HandleFormSubmit /\ submitReturn' \in AfterRateLimiter =>
          /\ SlotsUsed < MaxSubmissions
          /\ SlotsUsed' = SlotsUsed + 1
     /\ SlotsUsed' >= SlotsUsed]_vars

\* All five slots are used although no request has ever been sent: the last
\* attempt was stopped by injection detection.
C27_Witness ==
  /\ SlotsUsed = MaxSubmissions
  /\ generated = 1
  /\ inFlight = <<>>
  /\ toasts = [shown |-> 0, fading |-> 0]
  /\ errors.email.display = "none"
  /\ submitReturn \in {"name-threat", "email-threat", "message-threat"}

=========================================================================
